---- MODULE Spec2Model ----
(***************************************************************************)
(* Model of the echo copy-trading bot: the Position Store (StateManager),  *)
(* the Copy-Trade Orchestrator (TradeExecutor) and the Position Monitor    *)
(* (priceMonitoringLoop), under the interleavings the JavaScript event     *)
(* loop allows: every `await` of a gateway call is a point where another   *)
(* notification handler or the monitor loop may run.                       *)
(***************************************************************************)
EXTENDS Integers, FiniteSets, Sequences, Bags, TLC

(* ---- bounds ---- *)
MaxRuns == 2
NumMints == 1
MaxQuote == 1
\* SL/TP evaluation: valuation quote (lamports), held raw amount, entry price
\* (lamports per token)
MaxValue == 6
MaxHeld == 2
MaxEntryPrice == 2

\* notifications handled in one behaviour
RunCount == 0..MaxRuns
Mints == 1..NumMints
QuoteAmounts == 0..MaxQuote

VARIABLES executeTrades, MANAGE_WITH_SLTP,
          holdings, stateFile,
          runs, started,
          mpc, mSnap, mLive, mCur,
          isPriceMonitoringRunning, subscribed, shutdownPc, exitCode,
          args, result,
          last, soldOut, exited

cfg == <<executeTrades, MANAGE_WITH_SLTP>>
store == <<holdings, stateFile>>
pipes == <<runs, started>>
mon == <<mpc, mSnap, mLive, mCur>>
\* process life cycle: the monitor's stop flag, the log subscriptions, the
\* position of the shutdown handler and the exit code once exited
stop == <<isPriceMonitoringRunning, subscribed, shutdownPc>>
life == <<stop, exitCode>>
\* argument and result of a function evaluated on its own
fn == <<args, result>>
\* positions deleted by a confirmed sell / by a confirmed SL/TP sell and not
\* bought again since
sold == <<soldOut, exited>>
ghost == <<last, sold>>
vars == <<cfg, store, pipes, mon, life, fn, ghost>>

(* ---- Position Store ---- *)

\* BotHolding: amountLamports plus the cost-basis fields the callers read
\* (avgPurchasePriceInSol, tokenDecimals), kept as present / undefined.
BotHolding(amount, price, dec) ==
  [amountLamports |-> amount, hasPrice |-> price, hasDec |-> dec]

\* the holdings the bot may have recorded before this run of the process,
\* each the fill of one earlier buy of one unit (larger amounts come from
\* the buys of this run, which add to it):
\* recorded without cost basis (no decimals, no price) or recorded in
\* SL/TP mode (decimals and price)
InitialHoldingKinds ==
  { BotHolding(1, managed, managed) : managed \in BOOLEAN }

\* bigint -> decimal string, as saveHoldings serialises amountLamports
BigIntToString(n) == ToString(n)

BotHoldingJson(h) ==
  [amountLamports |-> BigIntToString(h.amountLamports),
   hasPrice |-> h.hasPrice, hasDec |-> h.hasDec]

HoldingsJson(hs) == [m \in DOMAIN hs |-> BotHoldingJson(hs[m])]

\* saveHoldings: the whole map is written; an exception of writeFileSync is
\* caught and logged, and the file keeps its previous content
saveHoldings(hs, file, writeOk) ==
  IF writeOk THEN HoldingsJson(hs) ELSE file

getHolding(m) == IF m \in DOMAIN holdings THEN holdings[m] ELSE BotHolding(0, FALSE, FALSE)

hasHolding(m) == m \in DOMAIN holdings

\* cost-basis fields written by a buy fill: decimals always, the entry price
\* iff the fill is recorded with isSlTpManaged (recomputed on every buy)
WithCostBasis(existingPrice, isSlTpManaged) ==
  IF isSlTpManaged THEN TRUE ELSE existingPrice

addOrUpdateHolding_overwrites(hs, m, amountToAdd, isSlTpManaged) ==
  [x \in DOMAIN hs \cup {m} |->
     IF x = m THEN BotHolding(amountToAdd, WithCostBasis(FALSE, isSlTpManaged), TRUE)
              ELSE hs[x]]

\* addOrUpdateHolding: an existing holding is aggregated in place, otherwise
\* a new entry is set
addOrUpdateHolding(hs, m, amountToAdd, isSlTpManaged) ==
  IF m \in DOMAIN hs
    THEN [hs EXCEPT ![m] = BotHolding(@.amountLamports + amountToAdd,
                                      WithCostBasis(@.hasPrice, isSlTpManaged),
                                      TRUE)]
    ELSE [x \in DOMAIN hs \cup {m} |->
            IF x = m THEN BotHolding(amountToAdd,
                                     WithCostBasis(FALSE, isSlTpManaged), TRUE)
                     ELSE hs[x]]

removeHolding_entryKept(hs, m) == hs

\* removeHolding: deletes the entry when present
removeHolding(hs, m) == [x \in DOMAIN hs \ {m} |-> hs[x]]

(* ---- Copy-Trade Orchestrator guards ---- *)

\* processTrade, lines 90-101: with SL/TP on, a sell of a holding that has
\* purchase price and decimals is ignored
processTradeSlTpGuard(m) ==
  /\ MANAGE_WITH_SLTP
  /\ hasHolding(m)
  /\ holdings[m].hasPrice
  /\ holdings[m].hasDec

\* processSellTrade, lines 257-272: no holding, or holding under SL/TP
processSellTradeGuard(m) ==
  \/ ~hasHolding(m)
  \/ (MANAGE_WITH_SLTP /\ holdings[m].hasPrice)

CopySellProceeds_unguarded(m) == hasHolding(m)

\* whether processTrade given a sell of m reaches the sell quote request
CopySellProceeds(m) ==
  /\ ~processTradeSlTpGuard(m)
  /\ ~processSellTradeGuard(m)

handleLogSuppresses_modeIgnored(t) ==
  /\ t.type = "sell"
  /\ hasHolding(t.mint)
  /\ holdings[t.mint].hasPrice
  /\ holdings[t.mint].hasDec

\* handleLog, monitor.ts lines 143-158: the caller-side filter
handleLogSuppresses(t) ==
  /\ t.type = "sell"
  /\ MANAGE_WITH_SLTP
  /\ hasHolding(t.mint)
  /\ holdings[t.mint].hasPrice
  /\ holdings[t.mint].hasDec

ShouldCommit_ignoresMode(success) == success

ShouldCommit_ignoresResult(success) == executeTrades

\* `result?.success && this.executeTrades`
ShouldCommit(success) == success /\ executeTrades

IsSellType(t) == t.type \in {"sell", "exit"}

(* ---- error isolation ---- *)

CatchBlocks_none(site) == {}

\* the catch blocks around everything awaited under a notification handler
\* (monitor.ts 184 and 78) and under the monitor loop (index.ts 152 and 201)
CatchBlocks(site) ==
  IF site = "handleLog"
    THEN {"handleLog catch", "onLogs .catch"}
    ELSE {"priceMonitoringLoop catch", "main .catch"}

\* an exception no catch block takes reaches the unhandledRejection handler
ExceptionEscapes(site) == CatchBlocks(site) = {}

\* an exception raised under site: logged, or process.exit(1)
Thrown(site) ==
  exitCode' = IF ExceptionEscapes(site) THEN "1" ELSE exitCode

\* the entry point a pipeline run was started from
RunSite(x) == IF x.trade.type = "exit" THEN "priceMonitoringLoop" ELSE "handleLog"

\* a pipeline invocation that is suspended at an await: the request it waits
\* for, the trade it works on and the amount it read for a sell
PendingRun(stage, t, amount) == [pc |-> stage, trade |-> t, sellAmount |-> amount]

InFlight == BagToSet(runs)

(* ---- initial state: after main() has loaded the holdings ---- *)

EmptyMap == [x \in {} |-> 0]

InitialHoldings ==
  UNION { [S -> InitialHoldingKinds] : S \in SUBSET Mints }

\* main(): nothing evaluated on its own, no shutdown requested
NoArgs == "none"

Running ==
  /\ isPriceMonitoringRunning = TRUE
  /\ subscribed = TRUE
  /\ shutdownPc = "none"
  /\ exitCode = "none"

MonitorEntry_always == "loop"

\* main() starts priceMonitoringLoop only with MANAGE_WITH_SLTP, and the
\* loop itself returns at once without it
MonitorEntry == IF MANAGE_WITH_SLTP THEN "loop" ELSE "off"

Init ==
  /\ Running
  /\ args = NoArgs
  /\ result = "none"
  /\ executeTrades \in BOOLEAN
  /\ MANAGE_WITH_SLTP \in BOOLEAN
  /\ holdings \in InitialHoldings
  /\ stateFile = HoldingsJson(holdings)
  /\ runs = EmptyBag
  /\ started = 0
  /\ mpc = MonitorEntry
  /\ mSnap = EmptyMap
  /\ mLive = {}
  /\ mCur = 0
  /\ last = "none"
  /\ soldOut = [m \in Mints |-> FALSE]
  /\ exited = [m \in Mints |-> FALSE]


(* ---- notification handlers: handleLog -> processTrade ---- *)

\* an invocation reaches an await, moves to its next await, or returns
Suspend(x) == runs' = runs (+) SetToBag({x})

Resume(x, stage) ==
  runs' = (runs (-) SetToBag({x})) (+) SetToBag({[x EXCEPT !.pc = stage]})

Return(x) == runs' = runs (-) SetToBag({x})

Notified_awaited ==
  /\ started < MaxRuns
  /\ started' = started + 1
  /\ \A x \in BagToSet(runs) : x.trade.type = "exit"

\* one more notification is handled: the onLogs callback calls handleLog
\* and returns without awaiting it
Notified ==
  /\ started < MaxRuns
  /\ started' = started + 1

CopyTrade(ty, m) == [type |-> ty, mint |-> m]

\* processTrade -> processBuyTrade up to the quote request
processBuyTrade(t) ==
  /\ t.type = "buy"
  /\ Suspend(PendingRun("quote", t, 0))
  /\ UNCHANGED <<cfg, life, store, mon, ghost>>

\* processTrade / processSellTrade returning before any request
processSellIgnored(t) ==
  /\ t.type = "sell"
  /\ ~CopySellProceeds(t.mint)
  /\ last' = IF hasHolding(t.mint) THEN "sltpManaged" ELSE "notHeld"
  /\ UNCHANGED <<cfg, life, store, runs, mon, sold>>

\* processTrade -> processSellTrade: reads the held amount, requests the quote
processSellTrade(t) ==
  /\ t.type = "sell"
  /\ CopySellProceeds(t.mint)
  /\ Suspend(PendingRun("quote", t, getHolding(t.mint).amountLamports))
  /\ UNCHANGED <<cfg, life, store, mon, ghost>>

processTrade(t) ==
  \/ processBuyTrade(t)
  \/ processSellIgnored(t)
  \/ processSellTrade(t)

\* a log notification as handleLog meets it: logs.err, what
\* getParsedTransaction returns for the signature (null, a transaction that
\* is no DEX interaction, a DEX interaction) and what analyzeTrade makes of
\* it (an exception, no trade, the trade)
Logs(err, tx, analysis, t) ==
  [err |-> err, transaction |-> tx, analysis |-> analysis, trade |-> t]

Notifications ==
  { Logs(err, tx, analysis, CopyTrade(ty, m)) :
      err \in BOOLEAN, tx \in {"null", "other", "dex"},
      analysis \in {"throws", "none", "trade"},
      ty \in {"buy", "sell"}, m \in Mints }

\* one notification for each way through handleLog: the fields handleLog
\* does not get to read are fixed
NotificationKinds ==
  LET t0 == CopyTrade("buy", 1) IN
  { Logs(TRUE, "null", "none", t0), Logs(FALSE, "null", "none", t0),
    Logs(FALSE, "other", "none", t0), Logs(FALSE, "dex", "throws", t0),
    Logs(FALSE, "dex", "none", t0) }
  \cup { Logs(FALSE, "dex", "trade", CopyTrade(ty, m)) :
           ty \in {"buy", "sell"}, m \in Mints }

handleLogOutcome_errIgnored(n) ==
  IF n.transaction = "null" THEN "txMissing"
  ELSE IF n.transaction # "dex" THEN "notDex"
  ELSE IF n.analysis = "throws" THEN "threw"
  ELSE IF n.analysis = "none" THEN "noTrade"
  ELSE IF handleLogSuppresses(n.trade) THEN "filtered"
  ELSE "processTrade"

\* where handleLog leaves a notification
handleLogOutcome(n) ==
  IF n.err THEN "logErr"
  ELSE IF n.transaction = "null" THEN "txMissing"
  ELSE IF n.transaction # "dex" THEN "notDex"
  ELSE IF n.analysis = "throws" THEN "threw"
  ELSE IF n.analysis = "none" THEN "noTrade"
  ELSE IF handleLogSuppresses(n.trade) THEN "filtered"
  ELSE "processTrade"

\* the collaborators handleLog has called by then, in order
handleLogCalls(n) ==
  LET o == handleLogOutcome(n) IN
  IF o = "logErr" THEN <<>>
  ELSE IF o = "txMissing" THEN <<"getParsedTransaction">>
  ELSE IF o = "notDex" THEN <<"getParsedTransaction", "isDexInteraction">>
  ELSE IF o \in {"threw", "noTrade", "filtered"}
    THEN <<"getParsedTransaction", "isDexInteraction", "analyzeTrade">>
  ELSE <<"getParsedTransaction", "isDexInteraction", "analyzeTrade", "processTrade">>

\* handleLog on notification n: the trade is handed to processTrade, or the
\* notification is dropped (a sell of an SL/TP managed holding: filtered)
handleLogOf(n) ==
  LET o == handleLogOutcome(n) IN
  IF o = "processTrade"
    THEN processTrade(n.trade)
    ELSE /\ last' = IF o = "filtered" THEN "filtered" ELSE last
         /\ IF o = "threw" THEN Thrown("handleLog") ELSE exitCode' = exitCode
         /\ UNCHANGED <<cfg, stop, store, runs, mon, sold>>

\* the onLogs callback of a subscription
handleLog ==
  /\ subscribed
  /\ Notified
  /\ \E n \in NotificationKinds : handleLogOf(n)
  /\ UNCHANGED fn

\* processTrade called without the caller-side filter of handleLog
processTradeUnfiltered ==
  /\ Notified
  /\ \E m \in Mints : processTrade(CopyTrade("sell", m))
  /\ UNCHANGED fn

(* ---- the quote / build / sign / submit / confirm pipeline ---- *)
(* The awaits of one run between its first request and its Position Store *)
(* call touch no shared state, so they are grouped in two steps: the swap *)
(* gateway calls (quote, build, then deserialize and sign) and the ledger  *)
(* gateway calls (send, blockhash, confirm; or simulate).                  *)

QuoteStages == {"quote", "build", "sign"}
ExecStages == {"send", "blockhash", "confirm"}

\* the run returns; last keeps the result of the run that returned last
Finish(x, o) ==
  /\ Return(x)
  /\ last' = o

\* getJupiterQuote, getJupiterSwap, deserialize and sign: a null quote, a
\* null swap response or a throwing deserialize/sign aborts the run;
\* otherwise executeRealTradeInternal or simulateTradeInternal is entered
QuoteReturn(x) ==
  /\ x.pc = "quote"
  /\ \/ /\ \E failedAt \in QuoteStages : Finish(x, "failed")
        /\ Thrown(RunSite(x))
        /\ UNCHANGED <<cfg, stop, fn, store, started, mon, sold>>
     \/ /\ Resume(x, IF executeTrades THEN "exec" ELSE "simulate")
        /\ UNCHANGED <<cfg, life, fn, store, started, mon, ghost>>

\* the Position Store call of a run: addOrUpdateHolding(outAmount of the
\* quote) for a buy, removeHolding for a copy-sell or an SL/TP sell; both end
\* in saveHoldings.  An existing holding is updated in place, so a monitor
\* snapshot that still refers to the object sees the new amount.
Commit(x, outAmount, writeOk) ==
  LET m == x.trade.mint IN
  IF x.trade.type = "buy"
    THEN /\ holdings' = addOrUpdateHolding(holdings, m, outAmount, MANAGE_WITH_SLTP)
         /\ stateFile' = saveHoldings(holdings', stateFile, writeOk)
         /\ mSnap' = IF m \in mLive THEN [mSnap EXCEPT ![m] = holdings'[m]] ELSE mSnap
         /\ mLive' = mLive
         /\ soldOut' = [soldOut EXCEPT ![m] = FALSE]
         /\ exited' = [exited EXCEPT ![m] = FALSE]
    ELSE /\ holdings' = removeHolding(holdings, m)
         /\ stateFile' = IF hasHolding(m)
                           THEN saveHoldings(holdings', stateFile, writeOk)
                           ELSE stateFile
         /\ mLive' = mLive \ {m}
         /\ mSnap' = mSnap
         /\ soldOut' = [soldOut EXCEPT ![m] = hasHolding(m) \/ @]
         /\ exited' = [exited EXCEPT ![m] = (x.trade.type = "exit" /\ hasHolding(m)) \/ @]

\* the outAmount of the quote a buy was executed on (a sell records none)
FillAmounts(t) == IF t.type = "buy" THEN QuoteAmounts ELSE {0}

\* after execution or simulation has returned {success}: the store is
\* updated iff `result?.success && this.executeTrades`, and the run returns
Returned(x, success) ==
  /\ Finish(x, IF success THEN "success" ELSE "failed")
  /\ IF success THEN exitCode' = exitCode ELSE Thrown(RunSite(x))
  /\ IF ShouldCommit(success)
       THEN /\ \E outAmount \in FillAmounts(x.trade), writeOk \in BOOLEAN :
                 Commit(x, outAmount, writeOk)
            /\ UNCHANGED <<cfg, stop, fn, started, mpc, mCur>>
       ELSE UNCHANGED <<cfg, stop, fn, store, started, mon, sold>>

\* executeRealTradeInternal returns: success when sendRawTransaction,
\* getLatestBlockhash and confirmTransaction all returned, failure when one
\* of them threw
ExecReturn(x) ==
  /\ x.pc = "exec"
  /\ \/ \E failedAt \in ExecStages : Returned(x, FALSE)
     \/ Returned(x, TRUE)

\* simulateTradeInternal returns: success, simulation error or exception
SimulateReturn(x) ==
  /\ x.pc = "simulate"
  /\ \E ok \in BOOLEAN : Returned(x, ok)

(* ---- Position Monitor: priceMonitoringLoop ---- *)

(* SL/TP arithmetic.  The code works in doubles; here every quantity is an *)
(* exact fraction n/d, SOL values counted in lamports, so that the order   *)
(* of two prices is the order of the real numbers the doubles stand for.   *)

Rat(n, d) == [n |-> n, d |-> d]
RatMul(a, b) == Rat(a.n * b.n, a.d * b.d)
RatDiv(a, b) == Rat(a.n * b.d, a.d * b.n)
RatAdd(a, b) == Rat(a.n * b.d + b.n * a.d, a.d * b.d)
RatSub(a, b) == Rat(a.n * b.d - b.n * a.d, a.d * b.d)
\* a <= b, denominators positive
RatLeq(a, b) == a.n * b.d <= b.n * a.d

Pow10(k) == IF k = 0 THEN 1 ELSE IF k = 1 THEN 10 ELSE 100

\* TAKE_PROFIT_PERCENTAGE / STOP_LOSS_PERCENTAGE as config accepts them (> 0)
Percentages == {50, 100}
Decimals == {0, 1}

\* what one evaluation reads: the outAmount of the valuation quote, the
\* holding (amountLamports, tokenDecimals, avgPurchasePriceInSol) and the
\* two configured percentages
PriceCheck(out, amount, dec, entry, tp, sl) ==
  [outAmount |-> out, amountLamports |-> amount, tokenDecimals |-> dec,
   avgPurchasePriceInSol |-> entry,
   TAKE_PROFIT_PERCENTAGE |-> tp, STOP_LOSS_PERCENTAGE |-> sl]

PriceChecks(amounts) ==
  { PriceCheck(out, amount, dec, Rat(entry, 1), tp, sl) :
      out \in 0..MaxValue, amount \in amounts, dec \in Decimals,
      entry \in 1..MaxEntryPrice, tp \in Percentages, sl \in Percentages }

currentValueInSol(c) == Rat(c.outAmount, 1)
tokensHeld(c) == Rat(c.amountLamports, Pow10(c.tokenDecimals))
currentPricePerTokenSol(c) == RatDiv(currentValueInSol(c), tokensHeld(c))
tpPrice(c) ==
  RatMul(c.avgPurchasePriceInSol, RatAdd(Rat(1, 1), Rat(c.TAKE_PROFIT_PERCENTAGE, 100)))
slPrice(c) ==
  RatMul(c.avgPurchasePriceInSol, RatSub(Rat(1, 1), Rat(c.STOP_LOSS_PERCENTAGE, 100)))

\* index.ts 92-150: which executeSlTpSell, if any, the evaluation calls
SlTpTrigger_strict(c) ==
  IF tokensHeld(c).n <= 0 THEN "none"
  ELSE IF ~RatLeq(currentPricePerTokenSol(c), tpPrice(c)) THEN "TP"
  ELSE IF RatLeq(currentPricePerTokenSol(c), slPrice(c)) THEN "SL"
  ELSE "none"

SlTpTrigger(c) ==
  IF tokensHeld(c).n <= 0 THEN "none"
  ELSE IF RatLeq(tpPrice(c), currentPricePerTokenSol(c)) THEN "TP"
  ELSE IF RatLeq(currentPricePerTokenSol(c), slPrice(c)) THEN "SL"
  ELSE "none"

DropKey(f, k) == [x \in DOMAIN f \ {k} |-> f[x]]

\* while (isPriceMonitoringRunning) { holdings = getAllHoldings() ...
TickStart ==
  /\ mpc = "loop"
  /\ isPriceMonitoringRunning
  /\ mSnap' = holdings
  /\ mLive' = DOMAIN holdings
  /\ mCur' = 0
  /\ mpc' = "iter"
  /\ UNCHANGED <<cfg, life, fn, store, pipes, ghost>>

Evaluated(h) == h.hasPrice /\ h.hasDec /\ h.amountLamports > 0

\* for-of step on a holding without price or decimals or amount: continue
SkipPosition ==
  /\ mpc = "iter"
  /\ isPriceMonitoringRunning
  /\ \E m \in DOMAIN mSnap :
       /\ ~Evaluated(mSnap[m])
       /\ mSnap' = DropKey(mSnap, m)
       /\ mLive' = mLive \ {m}
  /\ UNCHANGED <<cfg, life, fn, store, pipes, ghost, mpc, mCur>>

\* for-of step on an evaluated holding: await getTokenInfo
EvaluatePosition ==
  /\ mpc = "iter"
  /\ isPriceMonitoringRunning
  /\ \E m \in DOMAIN mSnap :
       /\ Evaluated(mSnap[m])
       /\ mCur' = m
  /\ mpc' = "tokenInfo"
  /\ UNCHANGED <<cfg, life, fn, store, pipes, ghost, mSnap, mLive>>

\* getTokenInfo returned: the valuation quote is requested
TokenInfoReturn ==
  /\ mpc = "tokenInfo"
  /\ mpc' = "priceQuote"
  /\ UNCHANGED <<cfg, life, fn, store, pipes, ghost, mSnap, mLive, mCur>>

Continue_sameEntryAgain ==
  /\ mSnap' = mSnap
  /\ mLive' = mLive
  /\ mCur' = 0
  /\ mpc' = "iter"

\* `continue`: the for-of loop moves on to the next entry of the snapshot
Continue ==
  /\ mSnap' = DropKey(mSnap, mCur)
  /\ mLive' = mLive \ {mCur}
  /\ mCur' = 0
  /\ mpc' = "iter"

\* getJupiterQuote may return null; a quote that comes is evaluated
QuoteResponses == {"null", "ok"}

\* whether some valuation of the current position gives a trigger in kinds
TriggerPossible(kinds) ==
  ~ \A out \in 0..MaxValue, dec \in Decimals, entry \in 1..MaxEntryPrice,
       tp \in Percentages, sl \in Percentages :
      SlTpTrigger(PriceCheck(out, mSnap[mCur].amountLamports, dec,
                             Rat(entry, 1), tp, sl)) \notin kinds

NoExitPossible ==
  ~ \A quote \in QuoteResponses : quote = "ok" /\ ~TriggerPossible({"none"})
ExitPossible == TriggerPossible({"TP", "SL"})

\* valuation quote unavailable, or no trigger: next position
PriceQuoteNoExit ==
  /\ mpc = "priceQuote"
  /\ NoExitPossible
  /\ Continue
  /\ UNCHANGED <<cfg, life, fn, store, pipes, ghost>>

\* take-profit or stop-loss trigger: executeSlTpSell up to its quote request
executeSlTpSell ==
  /\ mpc = "priceQuote"
  /\ mSnap[mCur].amountLamports > 0
  /\ ExitPossible
  /\ Suspend(PendingRun("quote", [type |-> "exit", mint |-> mCur],
                        mSnap[mCur].amountLamports))
  /\ mpc' = "exit"
  /\ UNCHANGED <<cfg, life, fn, store, started, ghost, mSnap, mLive, mCur>>

PauseReturn_notAwaited ==
  /\ mpc = "exit"
  /\ Continue
  /\ UNCHANGED <<cfg, life, fn, store, pipes, ghost>>

\* executeSlTpSell has returned and sleep(1000) is over: next position
PauseReturn ==
  /\ mpc = "exit"
  /\ \A x \in InFlight : x.trade.type # "exit"
  /\ Continue
  /\ UNCHANGED <<cfg, life, fn, store, pipes, ghost>>

PassAborted_loopLeft ==
  /\ mpc \in {"tokenInfo", "priceQuote"}
  /\ Thrown("priceMonitoringLoop")
  /\ mSnap' = EmptyMap
  /\ mLive' = {}
  /\ mCur' = 0
  /\ mpc' = "stopped"
  /\ UNCHANGED <<cfg, stop, fn, store, pipes, ghost>>

\* getTokenInfo, the valuation quote or its evaluation throws: the catch of
\* the pass logs it, the rest of the pass is skipped, the loop sleeps
PassAborted ==
  /\ mpc \in {"tokenInfo", "priceQuote"}
  /\ Thrown("priceMonitoringLoop")
  /\ mSnap' = EmptyMap
  /\ mLive' = {}
  /\ mCur' = 0
  /\ mpc' = "sleep"
  /\ UNCHANGED <<cfg, stop, fn, store, pipes, ghost>>

\* `if (!isPriceMonitoringRunning) break;` with positions left, then
\* sleep(PRICE_CHECK_INTERVAL_MS)
Break ==
  /\ mpc = "iter"
  /\ ~isPriceMonitoringRunning
  /\ DOMAIN mSnap # {}
  /\ mSnap' = EmptyMap
  /\ mLive' = {}
  /\ mpc' = "sleep"
  /\ UNCHANGED <<cfg, life, fn, store, pipes, ghost, mCur>>

\* `while (isPriceMonitoringRunning)` is false: the loop is left
LoopExit ==
  /\ mpc = "loop"
  /\ ~isPriceMonitoringRunning
  /\ mpc' = "stopped"
  /\ UNCHANGED <<cfg, life, fn, store, pipes, ghost, mSnap, mLive, mCur>>

\* end of the for-of loop: sleep(PRICE_CHECK_INTERVAL_MS)
TickEnd ==
  /\ mpc = "iter"
  /\ DOMAIN mSnap = {}
  /\ mpc' = "sleep"
  /\ UNCHANGED <<cfg, life, fn, store, pipes, ghost, mSnap, mLive, mCur>>

SleepReturn ==
  /\ mpc = "sleep"
  /\ mpc' = "loop"
  /\ UNCHANGED <<cfg, life, fn, store, pipes, ghost, mSnap, mLive, mCur>>

priceMonitoringLoop ==
  \/ TickStart
  \/ SkipPosition
  \/ EvaluatePosition
  \/ TokenInfoReturn
  \/ PriceQuoteNoExit
  \/ executeSlTpSell
  \/ PauseReturn
  \/ PassAborted
  \/ TickEnd
  \/ SleepReturn

Next ==
  \/ handleLog
  \/ processTradeUnfiltered
  \/ \E x \in InFlight : QuoteReturn(x)
  \/ \E x \in InFlight : ExecReturn(x)
  \/ \E x \in InFlight : SimulateReturn(x)
  \/ priceMonitoringLoop

Spec == Init /\ [][Next]_vars

(* ---- shutdown: SIGINT / SIGTERM ---- *)

\* the signal handler up to `await walletMonitor.stopMonitoring()`
ShutdownSignal ==
  /\ shutdownPc = "none"
  /\ isPriceMonitoringRunning' = FALSE
  /\ shutdownPc' = "stopMonitoring"
  /\ UNCHANGED <<cfg, subscribed, exitCode, fn, store, pipes, mon, ghost>>

\* stopMonitoring returned: every removeOnLogsListener was awaited, one that
\* rejected was only logged and its listener stays; then sleep(shutdownPause)
StopMonitoringReturn ==
  /\ shutdownPc = "stopMonitoring"
  /\ \E removed \in BOOLEAN : subscribed' = ~removed
  /\ shutdownPc' = "pause"
  /\ UNCHANGED <<cfg, isPriceMonitoringRunning, exitCode, fn, store, pipes, mon, ghost>>

\* the pause is over: stateManager.saveHoldings(); process.exit(0)
ShutdownExit ==
  /\ shutdownPc = "pause"
  /\ \E writeOk \in BOOLEAN : stateFile' = saveHoldings(holdings, stateFile, writeOk)
  /\ exitCode' = "0"
  /\ shutdownPc' = "exited"
  /\ UNCHANGED <<cfg, isPriceMonitoringRunning, subscribed, fn, holdings, pipes, mon, ghost>>

shutdown ==
  \/ ShutdownSignal
  \/ StopMonitoringReturn
  \/ ShutdownExit

\* nothing runs once process.exit was called
Alive == exitCode = "none"

NextShutdown ==
  \/ Alive /\ Next
  \/ Alive /\ Break
  \/ Alive /\ LoopExit
  \/ Alive /\ shutdown

SpecShutdown == Init /\ [][NextShutdown]_vars

(* ---- the SL/TP decision on its own ---- *)

\* everything but the evaluated inputs: a bot with no position and no run
Quiescent ==
  /\ Running
  /\ executeTrades = TRUE
  /\ MANAGE_WITH_SLTP = TRUE
  /\ holdings = EmptyMap
  /\ stateFile = HoldingsJson(holdings)
  /\ runs = EmptyBag
  /\ started = 0
  /\ mpc = "priceQuote"
  /\ mSnap = EmptyMap
  /\ mLive = {}
  /\ mCur = 0
  /\ last = "none"
  /\ soldOut = [m \in Mints |-> FALSE]
  /\ exited = [m \in Mints |-> FALSE]

InitSlTp ==
  /\ Quiescent
  /\ args \in PriceChecks(0..MaxHeld)
  /\ result = "unset"

\* index.ts 92-150 applied to the inputs drawn
EvaluateTrigger ==
  /\ result = "unset"
  /\ result' = SlTpTrigger(args)
  /\ UNCHANGED <<cfg, store, pipes, mon, life, args, ghost>>

SpecSlTp == InitSlTp /\ [][EvaluateTrigger]_vars

(* ---- handleLog on its own: one notification against one store ---- *)

InitFront ==
  /\ Running
  /\ args \in Notifications
  /\ result = <<>>
  /\ executeTrades \in BOOLEAN
  /\ MANAGE_WITH_SLTP \in BOOLEAN
  /\ holdings \in InitialHoldings
  /\ stateFile = HoldingsJson(holdings)
  /\ runs = EmptyBag
  /\ started = 0
  /\ mpc = MonitorEntry
  /\ mSnap = EmptyMap
  /\ mLive = {}
  /\ mCur = 0
  /\ last = "none"
  /\ soldOut = [m \in Mints |-> FALSE]
  /\ exited = [m \in Mints |-> FALSE]

\* the onLogs callback on the notification drawn, up to the first await of
\* processTrade; result records the collaborators it called
HandleNotification ==
  /\ started = 0
  /\ subscribed
  /\ Notified
  /\ handleLogOf(args)
  /\ result' = handleLogCalls(args)
  /\ args' = args

SpecFront == InitFront /\ [][HandleNotification]_vars

(* ---- WalletMonitor.stopMonitoring on its own ---- *)

MaxSubs == 3

\* everything but the inputs and outputs of a function looked at on its
\* own: the bot as main leaves it, with no position and no run
Idle ==
  /\ Running
  /\ executeTrades = TRUE
  /\ MANAGE_WITH_SLTP = TRUE
  /\ holdings = EmptyMap
  /\ stateFile = HoldingsJson(holdings)
  /\ runs = EmptyBag
  /\ started = 0
  /\ mpc = MonitorEntry
  /\ mSnap = EmptyMap
  /\ mLive = {}
  /\ mCur = 0
  /\ last = "none"
  /\ soldOut = [m \in Mints |-> FALSE]
  /\ exited = [m \in Mints |-> FALSE]

Range(s) == { s[i] : i \in DOMAIN s }

\* the handles startMonitoring recorded: ids 1..k in subscription order
SubscriptionLists == { [i \in 1..k |-> i] : k \in 0..MaxSubs }

\* the monitor's subscriptionIds and the call in progress: which
\* removeOnLogsListener promises were created, which have settled, which
\* rejections were logged by the .catch of the call
StopState(ids, pc, attempted, settled, logged) ==
  [subscriptionIds |-> ids, pc |-> pc, attempted |-> attempted,
   settled |-> settled, logged |-> logged]

InitStop ==
  /\ Idle
  /\ \E ids \in SubscriptionLists :
       /\ args \in [rejects : SUBSET Range(ids)]
       /\ result = StopState(ids, "idle", {}, {}, {})

\* stopMonitoring up to `await Promise.all(promises)`: returns at once with
\* no handle, otherwise maps every handle to its removal promise
StopMonitoringCall ==
  /\ result.pc = "idle"
  /\ result' = IF Len(result.subscriptionIds) = 0
                 THEN [result EXCEPT !.pc = "done"]
                 ELSE [result EXCEPT !.pc = "awaiting",
                                     !.attempted = Range(result.subscriptionIds)]
  /\ UNCHANGED <<cfg, store, pipes, mon, life, args, ghost>>

RemovalSettles_uncaught(id) ==
  /\ result.pc = "awaiting"
  /\ id \in result.attempted \ result.settled
  /\ result' = IF id \in args.rejects
                 THEN [result EXCEPT !.pc = "rejected",
                                     !.settled = @ \cup {id}]
                 ELSE [result EXCEPT !.settled = @ \cup {id}]
  /\ UNCHANGED <<cfg, store, pipes, mon, life, args, ghost>>

\* one removeOnLogsListener promise settles; a rejection is turned into a
\* log line by its .catch, so the mapped promise fulfils either way
RemovalSettles(id) ==
  /\ result.pc = "awaiting"
  /\ id \in result.attempted \ result.settled
  /\ result' = [result EXCEPT !.settled = @ \cup {id},
                              !.logged = IF id \in args.rejects
                                           THEN @ \cup {id} ELSE @]
  /\ UNCHANGED <<cfg, store, pipes, mon, life, args, ghost>>

\* Promise.all fulfilled: this.subscriptionIds = []
StopMonitoringResolve ==
  /\ result.pc = "awaiting"
  /\ result.settled = result.attempted
  /\ result' = [result EXCEPT !.pc = "done", !.subscriptionIds = <<>>]
  /\ UNCHANGED <<cfg, store, pipes, mon, life, args, ghost>>

NextStop ==
  \/ StopMonitoringCall
  \/ \E id \in 1..MaxSubs : RemovalSettles(id)
  \/ StopMonitoringResolve

SpecStop == InitStop /\ [][NextStop]_vars


(* ---- TradeExecutor.processBuyTrade on its own: one buy run ---- *)

MaxTradeAmount == 2

\* BigInt(s) of the decimal string of a quote amount
BigInt(s) == CHOOSE n \in 0..(MaxQuote + MaxTradeAmount) : BigIntToString(n) = s

\* the detected buy (its size is the source wallet's) and the bot's config
BuyInputs ==
  [tokenMint : Mints, tokenAmount : 1..MaxTradeAmount,
   tradeAmountLamports : 1..MaxTradeAmount]

\* a quote of the swap gateway: amounts as decimal strings
QuoteResponse(inAmount, outAmount) ==
  [inAmount |-> BigIntToString(inAmount), outAmount |-> BigIntToString(outAmount)]
NoQuote == [inAmount |-> "", outAmount |-> ""]
NoFill == <<>>

BuyRun(pc, amount, quote, fill) ==
  [pc |-> pc, amount |-> amount, quoteResponse |-> quote, fill |-> fill]

InitBuy ==
  /\ Running
  /\ args \in BuyInputs
  /\ result = BuyRun("start", 0, NoQuote, NoFill)
  /\ executeTrades \in BOOLEAN
  /\ MANAGE_WITH_SLTP \in BOOLEAN
  /\ holdings \in InitialHoldings
  /\ stateFile = HoldingsJson(holdings)
  /\ runs = EmptyBag
  /\ started = 0
  /\ mpc = MonitorEntry
  /\ mSnap = EmptyMap
  /\ mLive = {}
  /\ mCur = 0
  /\ last = "none"
  /\ soldOut = [m \in Mints |-> FALSE]
  /\ exited = [m \in Mints |-> FALSE]

BuyQuoteAmount_mirrored(tradeDetails) == tradeDetails.tokenAmount

\* the amount parameter of the buy quote: this.tradeAmountLamports
BuyQuoteAmount(tradeDetails) == tradeDetails.tradeAmountLamports

\* processBuyTrade up to `await getJupiterQuote(...)`
BuyQuoteRequest ==
  /\ result.pc = "start"
  /\ result' = [result EXCEPT !.pc = "quote", !.amount = BuyQuoteAmount(args)]
  /\ UNCHANGED <<cfg, store, pipes, mon, life, args, ghost>>

\* the quote returns: null (or no swap instructions, or signing fails) ends
\* the run, otherwise the transaction is executed or simulated
BuyQuoteReturn ==
  /\ result.pc = "quote"
  /\ \/ result' = [result EXCEPT !.pc = "aborted"]
     \/ \E inAmount \in 1..MaxTradeAmount, outAmount \in QuoteAmounts :
          result' = [result EXCEPT !.pc = "exec",
                                   !.quoteResponse = QuoteResponse(inAmount, outAmount)]
  /\ UNCHANGED <<cfg, store, pipes, mon, life, args, ghost>>

\* executeRealTradeInternal / simulateTradeInternal returns {success}:
\* on success in real mode addOrUpdateHolding(tokenMint,
\* BigInt(outAmount), BigInt(inAmount), ...), which saves
BuyExecReturn ==
  /\ result.pc = "exec"
  /\ \E success \in BOOLEAN, writeOk \in BOOLEAN :
       IF ShouldCommit(success)
         THEN LET botExpectedTokensLamports == BigInt(result.quoteResponse.outAmount)
                  botSolCostLamports == BigInt(result.quoteResponse.inAmount)
              IN /\ holdings' = addOrUpdateHolding(holdings, args.tokenMint,
                                                   botExpectedTokensLamports,
                                                   MANAGE_WITH_SLTP)
                 /\ stateFile' = saveHoldings(holdings', stateFile, writeOk)
                 /\ result' = [result EXCEPT
                      !.pc = "committed",
                      !.fill = <<args.tokenMint, botExpectedTokensLamports,
                                 botSolCostLamports>>]
         ELSE /\ result' = [result EXCEPT
                   !.pc = IF success THEN "simulated" ELSE "failed"]
              /\ UNCHANGED store
  /\ UNCHANGED <<cfg, pipes, mon, life, args, ghost>>

NextBuy ==
  \/ BuyQuoteRequest
  \/ BuyQuoteReturn
  \/ BuyExecReturn

SpecBuy == InitBuy /\ [][NextBuy]_vars


(* ---- Trade Classifier: isDexInteraction, analyzeTrade ---- *)
(* Balances are whole numbers of a unit: base-asset amounts (native SOL,  *)
(* WSOL) count half dust thresholds (0.000005), asset amounts count the   *)
(* asset threshold (0.000001), so that values below, on and above each    *)
(* threshold are drawn.  Doubles are modelled as the numbers they stand   *)
(* for.                                                                   *)

MaxBase == 3
MaxUi == 2

solThreshold == 2
tokenThreshold == 1

WSOL_MINT == "So11111111111111111111111111111111111111112"
TokenMints == {"A", "B"}
monitoredWalletAddress == "wallet"

Abs(x) == IF x < 0 THEN -x ELSE x

\* an entry of meta.preTokenBalances / postTokenBalances; uiAmount may be null
TokenBalance(mint, owner, uiAmount) ==
  [mint |-> mint, owner |-> owner, uiAmount |-> uiAmount]
NullAmount == -1

\* the parts of a transaction analyzeTrade requires
TxFields ==
  {"preTokenBalances", "postTokenBalances", "preBalances", "postBalances",
   "accountKeys", "signature"}

\* a fetched transaction: which required parts are missing, whether the
\* watched account is among the account keys, its native balance before and
\* after, and the two token balance lists
Tx(missing, inKeys, preBalance, postBalance, pre, post) ==
  [isNull |-> FALSE, missing |-> missing, walletInAccountKeys |-> inKeys,
   preBalance |-> preBalance, postBalance |-> postBalance,
   preTokenBalances |-> pre, postTokenBalances |-> post]
NullTx == [Tx(TxFields, FALSE, 0, 0, <<>>, <<>>) EXCEPT !.isNull = TRUE]

\* a Map<mint, uiAmount> with its insertion order
NewMap == [keys |-> <<>>, get |-> <<>>]
MapHas(map, k) == \E i \in DOMAIN map.keys : map.keys[i] = k
MapIndex(map, k) == CHOOSE i \in DOMAIN map.keys : map.keys[i] = k
MapSet(map, k, v) ==
  IF MapHas(map, k)
    THEN [map EXCEPT !.get[MapIndex(map, k)] = v]
    ELSE [keys |-> Append(map.keys, k), get |-> Append(map.get, v)]
\* map.get(k)?.uiTokenAmount.uiAmount ?? 0
MapGetOrZero(map, k) == IF MapHas(map, k) THEN map.get[MapIndex(map, k)] ELSE 0

RECURSIVE createBalanceMapFrom(_, _, _)
createBalanceMapFrom(balances, i, map) ==
  IF i > Len(balances) THEN map
  ELSE LET b == balances[i] IN
       createBalanceMapFrom(balances, i + 1,
         IF b.owner = monitoredWalletAddress /\ b.uiAmount # NullAmount
           THEN MapSet(map, b.mint, b.uiAmount)
           ELSE map)

createBalanceMap(balances) == createBalanceMapFrom(balances, 1, NewMap)

\* new Set([...pre.keys(), ...post.keys()]) in iteration order
RECURSIVE AppendNew(_, _, _)
AppendNew(seq, more, i) ==
  IF i > Len(more) THEN seq
  ELSE AppendNew(IF \E j \in DOMAIN seq : seq[j] = more[i]
                   THEN seq ELSE Append(seq, more[i]),
                 more, i + 1)
allMints(tx) ==
  AppendNew(createBalanceMap(tx.preTokenBalances).keys,
            createBalanceMap(tx.postTokenBalances).keys, 1)

nativeSolChange(tx) ==
  IF tx.walletInAccountKeys THEN tx.postBalance - tx.preBalance ELSE 0

wsolTokenChange(tx) ==
  MapGetOrZero(createBalanceMap(tx.postTokenBalances), WSOL_MINT)
    - MapGetOrZero(createBalanceMap(tx.preTokenBalances), WSOL_MINT)

solChangeToUse(tx) ==
  IF Abs(nativeSolChange(tx)) > solThreshold
    THEN nativeSolChange(tx) ELSE wsolTokenChange(tx)

solSymbolToUse_alwaysNative(tx) == "SOL"

solSymbolToUse(tx) ==
  IF Abs(nativeSolChange(tx)) > solThreshold THEN "SOL" ELSE "WSOL"

tokenChange(tx, mint) ==
  MapGetOrZero(createBalanceMap(tx.postTokenBalances), mint)
    - MapGetOrZero(createBalanceMap(tx.preTokenBalances), mint)

isBuy(tx, mint) == tokenChange(tx, mint) > 0 /\ solChangeToUse(tx) < -solThreshold
isSell(tx, mint) == tokenChange(tx, mint) < 0 /\ solChangeToUse(tx) > solThreshold

DetectedTrade_signed(tx, mint) ==
  [type |-> IF isBuy(tx, mint) THEN "buy" ELSE "sell",
   tokenMint |-> mint,
   currencyMint |-> WSOL_MINT,
   currencySymbol |-> solSymbolToUse(tx),
   tokenAmount |-> tokenChange(tx, mint),
   currencyAmount |-> solChangeToUse(tx)]

\* the DetectedTrade object returned for mint
DetectedTrade(tx, mint) ==
  [type |-> IF isBuy(tx, mint) THEN "buy" ELSE "sell",
   tokenMint |-> mint,
   currencyMint |-> WSOL_MINT,
   currencySymbol |-> solSymbolToUse(tx),
   tokenAmount |-> Abs(tokenChange(tx, mint)),
   currencyAmount |-> Abs(solChangeToUse(tx))]

NoTrade == [type |-> "null"]

\* what analyzeTrade returns and the getTokenInfo calls it made on the way
Analysis(trade, calls) == [trade |-> trade, getTokenInfo |-> calls]

RECURSIVE analyzeMints(_, _, _, _)

analyzeMints_firstChangedOnly(tx, mints, i, calls) ==
  IF i > Len(mints) THEN Analysis(NoTrade, calls)
  ELSE LET mint == mints[i] IN
       IF mint = WSOL_MINT THEN analyzeMints(tx, mints, i + 1, calls)
       ELSE IF Abs(tokenChange(tx, mint)) > tokenThreshold
         THEN IF isBuy(tx, mint) \/ isSell(tx, mint)
                THEN Analysis(DetectedTrade(tx, mint), Append(calls, mint))
                ELSE Analysis(NoTrade, Append(calls, mint))
         ELSE analyzeMints(tx, mints, i + 1, calls)

\* the for-of loop over allMints from position i on
analyzeMints(tx, mints, i, calls) ==
  IF i > Len(mints) THEN Analysis(NoTrade, calls)
  ELSE LET mint == mints[i] IN
       IF mint = WSOL_MINT THEN analyzeMints(tx, mints, i + 1, calls)
       ELSE IF Abs(tokenChange(tx, mint)) > tokenThreshold
         THEN IF isBuy(tx, mint) \/ isSell(tx, mint)
                THEN Analysis(DetectedTrade(tx, mint), Append(calls, mint))
                ELSE analyzeMints(tx, mints, i + 1, Append(calls, mint))
         ELSE analyzeMints(tx, mints, i + 1, calls)

analyzeTrade_unvalidated(tx) ==
  IF Abs(solChangeToUse(tx)) < solThreshold THEN Analysis(NoTrade, <<>>)
  ELSE analyzeMints(tx, allMints(tx), 1, <<>>)

analyzeTrade(tx) ==
  IF tx.isNull \/ tx.missing # {} THEN Analysis(NoTrade, <<>>)
  ELSE IF Abs(solChangeToUse(tx)) < solThreshold THEN Analysis(NoTrade, <<>>)
  ELSE analyzeMints(tx, allMints(tx), 1, <<>>)


\* -- the transactions drawn --

Absent == -2
UiAmounts == {Absent} \cup (0..MaxUi)
BaseAmounts == {Absent} \cup (0..MaxBase)
\* balances after: no account, emptied, or the largest amount (with every
\* balance before, these give every change between -Max and +Max)
UiAmountsAfter == {Absent, 0, MaxUi}
BaseAmountsAfter == {Absent, 0, MaxBase}
MintOrders == {<<"A", "B">>, <<"B", "A">>}

\* the watched account's entry of a mint, if it has one; an absent "B" is
\* listed with a null uiAmount, an absent "A" or WSOL is not listed
OwnEntry(mint, amount) ==
  IF amount # Absent THEN <<TokenBalance(mint, monitoredWalletAddress, amount)>>
  ELSE IF mint = "B" THEN <<TokenBalance(mint, monitoredWalletAddress, NullAmount)>>
  ELSE <<>>

\* a token account of another owner holding asset "A"
ForeignEntry(foreign, amount) ==
  IF foreign THEN <<TokenBalance("A", "other", amount)>> ELSE <<>>

\* one balance list: another owner's account, the WSOL account, then the
\* two assets in the order given
BalanceList(foreign, foreignAmount, wsol, order, amounts) ==
  ForeignEntry(foreign, foreignAmount) \o OwnEntry(WSOL_MINT, wsol)
    \o OwnEntry(order[1], amounts[order[1]]) \o OwnEntry(order[2], amounts[order[2]])

\* complete transactions; the native balance before is MaxBase
CompleteTxs ==
  { Tx({}, native # Absent, MaxBase, IF native = Absent THEN MaxBase ELSE native,
       BalanceList(foreign, 0, preWsol, order, pre),
       BalanceList(foreign, MaxUi, postWsol, order, post)) :
      native \in {Absent} \cup (0..(2 * MaxBase)),
      foreign \in BOOLEAN, order \in MintOrders,
      preWsol \in BaseAmounts, postWsol \in BaseAmountsAfter,
      pre \in [TokenMints -> UiAmounts], post \in [TokenMints -> UiAmountsAfter] }

\* a transaction that shows a buy of "A" for native SOL
SampleBuyTx ==
  Tx({}, TRUE, MaxBase, 0,
     BalanceList(FALSE, 0, Absent, <<"A", "B">>, [m \in TokenMints |-> 0]),
     BalanceList(FALSE, 0, Absent, <<"A", "B">>,
                 [m \in TokenMints |-> IF m = "A" THEN MaxUi ELSE 0]))

\* the same transaction with some required parts missing, and null
IncompleteTxs ==
  { [SampleBuyTx EXCEPT !.missing = missing] : missing \in SUBSET TxFields \ {{}} }
    \cup {NullTx}

NotAnalyzed == Analysis([type |-> "pending"], <<>>)

InitAnalyze ==
  /\ Idle
  /\ args \in CompleteTxs \cup IncompleteTxs
  /\ result = NotAnalyzed

\* analyzeTrade applied to the transaction drawn
AnalyzeTransaction ==
  /\ result = NotAnalyzed
  /\ result' = analyzeTrade(args)
  /\ UNCHANGED <<cfg, store, pipes, mon, life, args, ghost>>

SpecAnalyze == InitAnalyze /\ [][AnalyzeTransaction]_vars


\* -- isDexInteraction --

MaxInstructions == 2
MaxInnerSets == 1

DEX_PROGRAM_IDS ==
  {"JUP6LkbZbjS1jKKwapdHNy74zcZ3tLUZoi5QNyVTaV4",
   "whirLbMiicVdio4qvUfM5KAg6Ct8VwpYzGff3uctyCc",
   "PhoeNiXZ8ByJGLkxNfZRnkUfjvmuYqLR89jjFHGqdXY",
   "5Q544fKrFoe6tsEbD7S8EmxGTJYAKtTVhAW5Q5pge4j1",
   "675kPX9MHTjS2zt1qfr1NYHuzeLXfQM9H24wFSUt1Mp8",
   "CAMMCzo5YL8w4VFF8KVHrK22GGUsp5VTaW7grrKgrWqK",
   "LBUZKhRxPF3XUpBCjp4YzTKgLccjZhTSDM9YuVaPwxo",
   "Eo7WjKq67rjJQSZxS6z3YkapzY3eMj6Xy8X5EQVn5UaB"}

\* an instruction is its programId; a compiled instruction has none
NoProgramId == "programIdIndex"
ProgramIds ==
  {"JUP6LkbZbjS1jKKwapdHNy74zcZ3tLUZoi5QNyVTaV4",
   "11111111111111111111111111111111", NoProgramId}

SeqsUpTo(S, n) == UNION { [1..k -> S] : k \in 0..n }
InstructionLists == SeqsUpTo(ProgramIds, MaxInstructions)

\* a fetched transaction as isDexInteraction reads it: meta present or not,
\* message.instructions, meta.innerInstructions (a list of instruction sets,
\* or missing)
InstructionsTx(hasMeta, instructions, hasInner, inner) ==
  [isNull |-> FALSE, hasMeta |-> hasMeta, instructions |-> instructions,
   hasInnerInstructions |-> hasInner, innerInstructions |-> inner]
NullInstructionsTx ==
  [InstructionsTx(FALSE, <<>>, FALSE, <<>>) EXCEPT !.isNull = TRUE]

InstructionsTxs ==
  { InstructionsTx(hasMeta, top, hasInner, IF hasInner THEN inner ELSE <<>>) :
      hasMeta \in BOOLEAN, top \in InstructionLists, hasInner \in BOOLEAN,
      inner \in SeqsUpTo(InstructionLists, MaxInnerSets) }
    \cup {NullInstructionsTx}

\* "programId" in instruction && DEX_PROGRAM_IDS.has(programId)
IsDexInstruction(instruction) ==
  instruction # NoProgramId /\ instruction \in DEX_PROGRAM_IDS

\* for (const instruction of instructions) ... return true
RECURSIVE anyDexFrom(_, _)
anyDexFrom(instructions, i) ==
  IF i > Len(instructions) THEN FALSE
  ELSE IF IsDexInstruction(instructions[i]) THEN TRUE
  ELSE anyDexFrom(instructions, i + 1)

RECURSIVE anyDexInSetsFrom(_, _)
anyDexInSetsFrom(sets, i) ==
  IF i > Len(sets) THEN FALSE
  ELSE IF anyDexFrom(sets[i], 1) THEN TRUE
  ELSE anyDexInSetsFrom(sets, i + 1)

isDexInteraction_topLevelOnly(tx) ==
  IF tx.isNull \/ ~tx.hasMeta THEN FALSE
  ELSE anyDexFrom(tx.instructions, 1)

isDexInteraction(tx) ==
  IF tx.isNull \/ ~tx.hasMeta THEN FALSE
  ELSE IF anyDexFrom(tx.instructions, 1) THEN TRUE
  ELSE IF tx.hasInnerInstructions THEN anyDexInSetsFrom(tx.innerInstructions, 1)
  ELSE FALSE

\* how handleLog meets the fetched transaction tx
TransactionKind(tx) ==
  IF tx.isNull THEN "null" ELSE IF isDexInteraction(tx) THEN "dex" ELSE "other"

\* isDexInteraction(tx), and the calls of handleLog on a notification whose
\* transaction is tx and in which analyzeTrade would find a buy
DexCheck(tx) ==
  [isDex |-> isDexInteraction(tx),
   handleLog |-> handleLogCalls(Logs(FALSE, TransactionKind(tx), "trade",
                                     CopyTrade("buy", 1)))]

NotChecked == [isDex |-> FALSE, handleLog |-> <<"pending">>]

InitDex ==
  /\ Idle
  /\ args \in InstructionsTxs
  /\ result = NotChecked

CheckTransaction ==
  /\ result = NotChecked
  /\ result' = DexCheck(args)
  /\ UNCHANGED <<cfg, store, pipes, mon, life, args, ghost>>

SpecDex == InitDex /\ [][CheckTransaction]_vars


\* -- saveHoldings / loadHoldings as a round trip through the state file --

MaxAmountDigits == 2
\* the largest amount a 32-bit integer holds
LargestAmount == 2147483647

\* a string is the sequence of its characters
DigitChars == <<"0", "1", "2", "3", "4", "5", "6", "7", "8", "9">>
DigitOf(c) == (CHOOSE i \in 1..10 : DigitChars[i] = c) - 1
IsDigit(c) == \E i \in 1..10 : DigitChars[i] = c

\* bigint.toString(): the decimal digits, most significant first, "-" before
\* a negative number
RECURSIVE digitsOf(_)
digitsOf(n) ==
  IF n < 10 THEN <<DigitChars[n + 1]>>
  ELSE Append(digitsOf(n \div 10), DigitChars[(n % 10) + 1])

bigintToString(n) ==
  IF n < 0 THEN <<"-">> \o digitsOf(0 - n) ELSE digitsOf(n)

\* BigInt(string): the empty string is 0n, an optional "-" and decimal
\* digits are the number, anything else throws SyntaxError
RECURSIVE valueOfDigits(_, _, _)
valueOfDigits(s, i, acc) ==
  IF i > Len(s) THEN acc
  ELSE valueOfDigits(s, i + 1, acc * 10 + DigitOf(s[i]))

AllDigits(s) == Len(s) > 0 /\ \A i \in DOMAIN s : IsDigit(s[i])

BigIntThrows(s) ==
  /\ s # <<>>
  /\ ~AllDigits(s)
  /\ ~(s[1] = "-" /\ AllDigits(Tail(s)))

parseBigInt(s) ==
  IF s = <<>> THEN 0
  ELSE IF s[1] = "-" THEN 0 - valueOfDigits(Tail(s), 1, 0)
  ELSE valueOfDigits(s, 1, 0)

\* an optional field is <<>> (undefined) or <<value>>
Undefined == <<>>
Defined(v) == <<v>>

\* a position in memory: the amount and the optional cumulative cost, both
\* bigint
StoredHolding(amount, cost) == [amountLamports |-> amount, totalBaseSpent |-> cost]

StoredHoldingJson(h) ==
  [amountLamports |-> bigintToString(h.amountLamports),
   totalBaseSpent |-> IF h.totalBaseSpent = Undefined THEN Undefined
                      ELSE Defined(bigintToString(h.totalBaseSpent[1]))]

\* the state file: missing, empty, or the JSON object of the holdings
StateFile(kind, data) == [kind |-> kind, data |-> data]
NoStateFile == StateFile("missing", <<>>)
EmptyStateFile == StateFile("empty", <<>>)

serializeHoldings(hs) ==
  StateFile("json", [m \in DOMAIN hs |-> StoredHoldingJson(hs[m])])

\* saveHoldings: JSON of every holding is written; an exception of
\* writeFileSync is caught and logged and the file keeps what it had
saveHoldingsTo(hs, file, writeOk) ==
  IF writeOk THEN serializeHoldings(hs) ELSE file

ConvertThrows(j) ==
  \/ BigIntThrows(j.amountLamports)
  \/ j.totalBaseSpent # Undefined /\ BigIntThrows(j.totalBaseSpent[1])

loadHoldings_allOrNothing(file) ==
  IF file.kind # "json" \/ \E x \in DOMAIN file.data : ConvertThrows(file.data[x])
    THEN <<>>
  ELSE [m \in DOMAIN file.data |->
          StoredHolding(parseBigInt(file.data[m].amountLamports),
                        IF file.data[m].totalBaseSpent = Undefined THEN Undefined
                        ELSE Defined(parseBigInt(file.data[m].totalBaseSpent[1])))]

\* loadHoldings: a missing or empty file gives the empty map; an entry whose
\* conversion throws is skipped
loadHoldings(file) ==
  IF file.kind # "json" THEN <<>>
  ELSE [m \in { x \in DOMAIN file.data : ~ConvertThrows(file.data[x]) } |->
          StoredHolding(parseBigInt(file.data[m].amountLamports),
                        IF file.data[m].totalBaseSpent = Undefined THEN Undefined
                        ELSE Defined(parseBigInt(file.data[m].totalBaseSpent[1])))]

RECURSIVE TenTo(_)
TenTo(k) == IF k = 0 THEN 1 ELSE 10 * TenTo(k - 1)

\* amounts with every number of digits up to MaxAmountDigits, around the
\* carries, and the largest one
StoredAmounts ==
  {0, LargestAmount} \cup UNION { {TenTo(k) - 1, TenTo(k)} : k \in 1..MaxAmountDigits }
StoredCosts == {Undefined, Defined(1), Defined(LargestAmount)}

StoreMints == {"A", "B"}
StoredMaps ==
  UNION { [ms -> { StoredHolding(a, c) : a \in StoredAmounts, c \in StoredCosts }] :
          ms \in SUBSET StoreMints }

\* what the file holds before the save: nothing, an empty file, or an
\* earlier save, possibly edited to an amount that is no number
EarlierFiles ==
  {NoStateFile, EmptyStateFile,
   serializeHoldings([m \in {"A"} |-> StoredHolding(5, Undefined)]),
   StateFile("json", [m \in {"A", "B"} |->
     [amountLamports |-> IF m = "A" THEN <<"1", "x">> ELSE <<"0", "7">>,
      totalBaseSpent |-> Undefined]]),
   StateFile("json", [m \in {"A", "B"} |->
     [amountLamports |-> IF m = "A" THEN <<"-">> ELSE <<>>,
      totalBaseSpent |-> Undefined]])}

StoreTrip(pc, file, loaded) == [pc |-> pc, file |-> file, loaded |-> loaded]

InitStore ==
  /\ Idle
  /\ args \in StoredMaps
  /\ \E file \in EarlierFiles : result = StoreTrip("start", file, <<>>)

SaveHoldingsCall ==
  /\ result.pc = "start"
  /\ \E writeOk \in BOOLEAN :
       result' = StoreTrip(IF writeOk THEN "written" ELSE "writeFailed",
                           saveHoldingsTo(args, result.file, writeOk), <<>>)
  /\ UNCHANGED <<cfg, store, pipes, mon, life, args, ghost>>

\* the next start of the process
LoadHoldingsCall ==
  /\ result.pc \in {"written", "writeFailed"}
  /\ result' = StoreTrip(IF result.pc = "written" THEN "loaded" ELSE "loadedStale",
                         result.file, loadHoldings(result.file))
  /\ UNCHANGED <<cfg, store, pipes, mon, life, args, ghost>>

NextStore == SaveHoldingsCall \/ LoadHoldingsCall

SpecStore == InitStore /\ [][NextStore]_vars


\* -- the cost basis of a position across buy fills --

MaxFills == 2
MaxFillCost == 3

\* a committed buy fill: botExpectedTokensLamports, botSolCostLamports
Fill(units, cost) == [units |-> units, cost |-> cost]
Fills == { Fill(u, c) : u \in 1..MaxTradeAmount, c \in 1..MaxFillCost }

NoPosition ==
  [exists |-> FALSE, amountLamports |-> 0, totalBaseSpent |-> 0,
   avgPurchasePriceInSol |-> Rat(0, 1), tokenDecimals |-> 0, op |-> "none"]

\* cost per whole unit of the asset: the cost over amount / 10^decimals
PricePerToken(cost, amount, dec) == RatDiv(Rat(cost, 1), Rat(amount, Pow10(dec)))

addFillWithCostBasis_lastFillPrice(h, fill, dec) ==
  [exists |-> TRUE,
   amountLamports |-> h.amountLamports + fill.units,
   totalBaseSpent |-> h.totalBaseSpent + fill.cost,
   avgPurchasePriceInSol |-> PricePerToken(fill.cost, fill.units, dec),
   tokenDecimals |-> dec, op |-> "buy"]

\* addOrUpdateHolding with isSlTpManaged: the amount and the cumulative cost
\* grow by the fill, the entry price is the cumulative cost per whole unit
addFillWithCostBasis(h, fill, dec) ==
  [exists |-> TRUE,
   amountLamports |-> h.amountLamports + fill.units,
   totalBaseSpent |-> h.totalBaseSpent + fill.cost,
   avgPurchasePriceInSol |->
     PricePerToken(h.totalBaseSpent + fill.cost, h.amountLamports + fill.units, dec),
   tokenDecimals |-> dec, op |-> "buy"]

\* args: the fills committed to the position since it was created
InitCost ==
  /\ Idle
  /\ args = <<>>
  /\ result = NoPosition

\* processBuyTrade, confirmed in real mode: the fill of the quote is committed
CostBuyFill ==
  /\ Len(args) < MaxFills
  /\ \E fill \in Fills, dec \in Decimals :
       /\ result.exists => dec = result.tokenDecimals
       /\ result' = addFillWithCostBasis(result, fill, dec)
       /\ args' = Append(args, fill)
  /\ UNCHANGED <<cfg, store, pipes, mon, life, ghost>>

\* the monitor or the orchestrator reads the position
CostGetHolding ==
  /\ result.exists
  /\ result.op # "read"
  /\ result' = [result EXCEPT !.op = "read"]
  /\ UNCHANGED <<cfg, store, pipes, mon, life, args, ghost>>

\* a confirmed sell: removeHolding
CostRemoveHolding ==
  /\ result.exists
  /\ result' = [NoPosition EXCEPT !.op = "sell"]
  /\ args' = <<>>
  /\ UNCHANGED <<cfg, store, pipes, mon, life, ghost>>

NextCost == CostBuyFill \/ CostGetHolding \/ CostRemoveHolding

SpecCost == InitCost /\ [][NextCost]_vars


\* -- the stages of one pipeline run --

\* a stage that was requested and how it ended
StageEntry(stage, outcome) == [stage |-> stage, outcome |-> outcome]

\* which pipeline runs: processBuyTrade, processSellTrade or executeSlTpSell,
\* in real execution or simulation
PipelineRuns ==
  [type : {"buy", "sell", "exit"}, tokenMint : TokenMints, executeTrades : BOOLEAN]

AfterStage_failureIgnored(stage, ok, real) ==
  CASE stage = "quote" -> "build"
    [] stage = "build" -> "sign"
    [] stage = "sign" -> IF real THEN "submit" ELSE "simulate"
    [] stage = "submit" -> "blockhash"
    [] stage = "blockhash" -> "confirm"
    [] stage = "confirm" -> "done"
    [] stage = "simulate" -> "done"

\* what the run does when a stage has returned: a null response or an
\* exception ends it; after the quote getJupiterSwap, then deserialize and
\* sign, then executeRealTradeInternal (sendRawTransaction,
\* getLatestBlockhash, confirmTransaction) or simulateTradeInternal
AfterStage(stage, ok, real) ==
  IF ~ok THEN "done"
  ELSE CASE stage = "quote" -> "build"
         [] stage = "build" -> "sign"
         [] stage = "sign" -> IF real THEN "submit" ELSE "simulate"
         [] stage = "submit" -> "blockhash"
         [] stage = "blockhash" -> "confirm"
         [] stage = "confirm" -> "done"
         [] stage = "simulate" -> "done"

NotStarted == <<>>

InitPipeline ==
  /\ Idle
  /\ args \in PipelineRuns
  /\ result = NotStarted

\* the run reaches its first await: getJupiterQuote
PipelineStart ==
  /\ result = NotStarted
  /\ result' = <<StageEntry("quote", "pending")>>
  /\ UNCHANGED <<cfg, store, pipes, mon, life, args, ghost>>

\* the pending stage returns, and the run requests the next one or ends
StageReturns ==
  /\ result # NotStarted
  /\ result[Len(result)].outcome = "pending"
  /\ \E ok \in BOOLEAN :
       LET cur == result[Len(result)].stage
           settled == [result EXCEPT ![Len(result)].outcome = IF ok THEN "ok" ELSE "failed"]
           next == AfterStage(cur, ok, args.executeTrades)
       IN  result' = IF next = "done" THEN settled
                     ELSE Append(settled, StageEntry(next, "pending"))
  /\ UNCHANGED <<cfg, store, pipes, mon, life, args, ghost>>

NextPipeline == PipelineStart \/ StageReturns

SpecPipeline == InitPipeline /\ [][NextPipeline]_vars


\* -- WalletMonitor.startMonitoring, followed by stopMonitoring --

MaxWallets == 3

\* a subscription that onLogs opened: the wallet (its index in
\* monitoredWallets) and the id onLogs returned
Subscription(wallet, id) == [wallet |-> wallet, id |-> id]

\* the monitor after startMonitoring got to wallet w of n
Subscribed(ids, opened) == [subscriptionIds |-> ids, opened |-> opened]

RECURSIVE subscribeFrom_stopsAtFailure(_, _, _, _)
subscribeFrom_stopsAtFailure(w, n, throws, m) ==
  IF w > n THEN m
  ELSE IF w \in throws THEN m
  ELSE subscribeFrom_stopsAtFailure(w + 1, n, throws,
         Subscribed(Append(m.subscriptionIds, Len(m.subscriptionIds) + 1),
                    m.opened \cup {Subscription(w, Len(m.subscriptionIds) + 1)}))

\* monitoredWallets.forEach: try { id = connection.onLogs(...);
\* subscriptionIds.push(id) } catch { logError }, for the wallets from w on
RECURSIVE subscribeFrom(_, _, _, _)
subscribeFrom(w, n, throws, m) ==
  IF w > n THEN m
  ELSE IF w \in throws THEN subscribeFrom(w + 1, n, throws, m)
  ELSE subscribeFrom(w + 1, n, throws,
         Subscribed(Append(m.subscriptionIds, Len(m.subscriptionIds) + 1),
                    m.opened \cup {Subscription(w, Len(m.subscriptionIds) + 1)}))

\* the monitor as constructed: no handle, nothing opened; the fields of the
\* stopMonitoring call are those of StopState
Constructed ==
  [subscriptionIds |-> <<>>, opened |-> {}, pc |-> "constructed",
   attempted |-> {}, settled |-> {}, logged |-> {}]

\* args: the number of monitoredWallets, the wallets whose onLogs call
\* throws, the ids whose removal will be rejected
InitStart ==
  /\ Idle
  /\ \E n \in 0..MaxWallets :
       args \in [wallets : {n}, throws : SUBSET (1..n), rejects : SUBSET (1..n)]
  /\ result = Constructed

\* main(): walletMonitor.startMonitoring()
StartMonitoringCall ==
  /\ result.pc = "constructed"
  /\ LET m == subscribeFrom(1, args.wallets, args.throws, Subscribed(<<>>, {}))
     IN  result' = [result EXCEPT !.pc = "idle",
                                  !.subscriptionIds = m.subscriptionIds,
                                  !.opened = m.opened]
  /\ UNCHANGED <<cfg, store, pipes, mon, life, args, ghost>>

NextStart ==
  \/ StartMonitoringCall
  \/ StopMonitoringCall
  \/ \E id \in 1..MaxWallets : RemovalSettles(id)
  \/ StopMonitoringResolve

SpecStart == InitStart /\ [][NextStart]_vars


\* -- concurrent buy runs for one asset --

\* a buy run: not yet notified, awaiting its quote, executing with the
\* quoted outAmount, or ended
FillRun(pc, outAmount) == [pc |-> pc, outAmount |-> outAmount]

\* the asset every run of this specification buys
BoughtMint == 1

\* result: the buy runs by notification; args: the amount held before them
InitFills ==
  /\ Running
  /\ executeTrades = TRUE
  /\ MANAGE_WITH_SLTP \in BOOLEAN
  /\ args \in {0, 1}
  /\ holdings = IF args = 0 THEN EmptyMap
                ELSE [m \in {BoughtMint} |-> BotHolding(args, FALSE, FALSE)]
  /\ stateFile = HoldingsJson(holdings)
  /\ result = [i \in 1..MaxRuns |-> FillRun("none", 0)]
  /\ runs = EmptyBag
  /\ started = 0
  /\ mpc = MonitorEntry
  /\ mSnap = EmptyMap
  /\ mLive = {}
  /\ mCur = 0
  /\ last = "none"
  /\ soldOut = [m \in Mints |-> FALSE]
  /\ exited = [m \in Mints |-> FALSE]

\* onLogs callback -> handleLog -> processBuyTrade up to its quote request
FillNotified(i) ==
  /\ result[i].pc = "none"
  /\ result' = [result EXCEPT ![i].pc = "quote"]
  /\ UNCHANGED <<cfg, store, pipes, mon, life, args, ghost>>

\* the quote of run i returns: null ends the run
FillQuoteReturn(i) ==
  /\ result[i].pc = "quote"
  /\ \/ result' = [result EXCEPT ![i].pc = "failed"]
     \/ \E outAmount \in QuoteAmounts :
          result' = [result EXCEPT ![i] = FillRun("exec", outAmount)]
  /\ UNCHANGED <<cfg, store, pipes, mon, life, args, ghost>>

\* executeRealTradeInternal of run i returns; on success
\* addOrUpdateHolding(tokenMint, BigInt(quoteResponse.outAmount), ...)
FillExecReturn(i) ==
  /\ result[i].pc = "exec"
  /\ \E success \in BOOLEAN, writeOk \in BOOLEAN :
       IF ShouldCommit(success)
         THEN /\ holdings' = addOrUpdateHolding(holdings, BoughtMint,
                                                result[i].outAmount, MANAGE_WITH_SLTP)
              /\ stateFile' = saveHoldings(holdings', stateFile, writeOk)
              /\ result' = [result EXCEPT ![i].pc = "confirmed"]
         ELSE /\ result' = [result EXCEPT ![i].pc = "failed"]
              /\ UNCHANGED store
  /\ UNCHANGED <<cfg, pipes, mon, life, args, ghost>>

NextFills ==
  \E i \in 1..MaxRuns : FillNotified(i) \/ FillQuoteReturn(i) \/ FillExecReturn(i)

SpecFills == InitFills /\ [][NextFills]_vars


\* -- the monitor loop with a throwing risk-exit call --

\* the awaited executeSlTpSell throws around its quote (toFixed on the
\* decimals before it, BigInt(quoteResponse.outAmount) after it): the run
\* ends without a store call, the catch of the pass logs the exception, the
\* rest of the pass is skipped and the loop sleeps
ExitCallThrows(x) ==
  /\ mpc = "exit"
  /\ x.trade.type = "exit"
  /\ x.pc = "quote"
  /\ Finish(x, "threw")
  /\ Thrown("priceMonitoringLoop")
  /\ mSnap' = EmptyMap
  /\ mLive' = {}
  /\ mCur' = 0
  /\ mpc' = "sleep"
  /\ UNCHANGED <<cfg, stop, fn, store, started, sold>>

\* main() with MANAGE_WITH_SLTP set: the loop was started
InitMonitor == Init /\ MANAGE_WITH_SLTP

\* the loop and the risk-exit runs it awaits while no notification
\* arrives, the stop flag set by a signal at any time
NextMonitor ==
  \/ \E x \in InFlight : QuoteReturn(x)
  \/ \E x \in InFlight : ExecReturn(x)
  \/ \E x \in InFlight : SimulateReturn(x)
  \/ priceMonitoringLoop
  \/ \E x \in InFlight : ExitCallThrows(x)
  \/ ShutdownSignal
  \/ Break
  \/ LoopExit

SpecMonitor == InitMonitor /\ [][NextMonitor]_vars


\* -- real execution, SL/TP managed, never stopped: the fair loop --

\* main() with EXECUTE_TRADES and MANAGE_WITH_SLTP set
InitManaged == Init /\ executeTrades /\ MANAGE_WITH_SLTP

\* the loop and its risk-exit runs in real execution, one notification
\* handled beside them; no shutdown signal arrives
NextManaged ==
  \/ started = 0 /\ handleLog
  \/ \E x \in InFlight : QuoteReturn(x)
  \/ \E x \in InFlight : ExecReturn(x)
  \/ priceMonitoringLoop
  \/ \E x \in InFlight : ExitCallThrows(x)

\* the position the liveness of the loop is stated for (the mints are
\* interchangeable)
TriggeredMint == 1

\* the risk-exit run of position m passes quote, build and sign
ExitQuoteSucceeds(m) ==
  \E x \in InFlight :
    /\ x.trade = [type |-> "exit", mint |-> m]
    /\ QuoteReturn(x)
    /\ runs' # runs (-) SetToBag({x})

\* the risk-exit run of position m is submitted and confirmed
ExitExecSucceeds(m) ==
  \E x \in InFlight :
    /\ x.trade = [type |-> "exit", mint |-> m]
    /\ ExecReturn(x)
    /\ last' = "success"

\* the event loop resumes the monitor loop whenever it can go on, and every
\* awaited gateway call of a run returns
Scheduling ==
  /\ WF_vars(priceMonitoringLoop)
  /\ WF_vars(\E x \in InFlight : QuoteReturn(x) \/ ExecReturn(x))

\* for position m: the for-of iteration reaches it, the metadata lookup
\* returns, the valuation quote comes at a trigger price, and quote, build,
\* submit and confirm of its exit run succeed, each again and again if tried
\* again and again
EventuallySucceeds(m) ==
  /\ SF_vars(EvaluatePosition /\ mCur' = m)
  /\ SF_vars(TokenInfoReturn /\ mCur = m)
  /\ SF_vars(executeSlTpSell /\ mCur = m)
  /\ SF_vars(ExitQuoteSucceeds(m))
  /\ SF_vars(ExitExecSucceeds(m))

SpecManaged ==
  InitManaged /\ [][NextManaged]_vars /\ Scheduling /\ EventuallySucceeds(TriggeredMint)


TypeOK ==
  /\ DOMAIN holdings \subseteq Mints
  /\ DOMAIN stateFile \subseteq Mints
  /\ started \in RunCount
  /\ \A x \in InFlight : x.pc \in {"quote", "exec", "simulate"}

(* ---- properties ---- *)

SellsInFlight(m) == { x \in InFlight : IsSellType(x.trade) /\ x.trade.mint = m }

\* the step on which invocation x reaches its first await / returns
Starts(x) == runs' = runs (+) SetToBag({x})
Returns(x) == runs' = runs (-) SetToBag({x})

HeldAmount(m) == getHolding(m).amountLamports

EntryPriceCarried(m) == hasHolding(m) /\ holdings[m].hasPrice

\* C1: sell-type runs (copy-sell, SL/TP sell) on one asset are serialized:
\* no two of them are in flight having read the same held amount of it
SellRunsSerialized ==
  \A m \in Mints : \A x \in SellsInFlight(m) :
    /\ CopiesIn(x, runs) = 1
    /\ \A y \in SellsInFlight(m) : y.sellAmount = x.sellAmount => y.trade = x.trade

\* C2: a copy-sell and an SL/TP sell of the same asset never overlap with
\* both having asked the swap gateway to sell the balance
CopySellAndRiskExitExclusive ==
  \A m \in Mints :
    ~ \E x, y \in SellsInFlight(m) : x.trade.type = "sell" /\ y.trade.type = "exit"

\* C3: a run that fails at any stage returns with the Position Store (map
\* and file) as it was; the store changes only on the return of a run that
\* succeeded
FailureLeavesStoreUntouched ==
  [][/\ (\E x \in InFlight : Returns(x) /\ last' = "failed") => UNCHANGED store
     /\ store' # store => \E x \in InFlight : Returns(x) /\ last' = "success"]_vars

FailedRunReached ==
  /\ executeTrades
  /\ last = "failed"
  /\ DOMAIN holdings # {}

\* C4: with executeTrades = false no run is ever in submit / confirm and the
\* Position Store never changes, whatever the simulation returns
SimulationNeverMutates ==
  /\ [](~executeTrades => \A x \in InFlight : x.pc # "exec")
  /\ [][~executeTrades => UNCHANGED store]_vars

SimulationSucceeded ==
  /\ ~executeTrades
  /\ last = "success"

\* C5: every run confirmed in real-execution mode applies one Position Store
\* mutation on its return: addOrUpdateHolding for a buy, a removeHolding
\* that finds the position for a sell or an SL/TP sell
OneMutationPerConfirmedRun ==
  [][\A x \in InFlight :
       (Returns(x) /\ last' = "success" /\ executeTrades /\ IsSellType(x.trade))
         => (hasHolding(x.trade.mint) /\ ~hasHolding(x.trade.mint)')]_vars

\* C6: the stored amount is the net of committed buy fills and of the amounts
\* sold by committed sells: a committed sell lowers it by the amount sold, a
\* committed buy raises it by the fill, nothing else changes it
AmountIsNetOfFills ==
  [][\A m \in Mints :
       \/ HeldAmount(m)' = HeldAmount(m)
       \/ \E x \in InFlight :
            /\ Returns(x) /\ last' = "success" /\ x.trade.mint = m
            /\ IF IsSellType(x.trade)
                 THEN HeldAmount(m)' = HeldAmount(m) - x.sellAmount
                 ELSE HeldAmount(m)' - HeldAmount(m) \in QuoteAmounts]_vars

\* C7: every stored position has an amount greater than zero
PositionsPositive ==
  \A m \in DOMAIN holdings : holdings[m].amountLamports > 0

\* C8: once a confirmed sell has deleted the position of an asset, no further
\* sell attempt for it sends a request (until the asset is bought again)
NoSellAfterDeletion ==
  [][\A x \in InFlight' :
       (Starts(x) /\ IsSellType(x.trade)) => ~soldOut[x.trade.mint]]_vars

\* C9: with SL/TP management on, processTrade never starts a sell pipeline
\* for an asset whose position carries an entry price, filtered by the
\* caller or not
CopySellSuppressedUnderSlTp ==
  [][\A x \in InFlight' :
       (Starts(x) /\ x.trade.type = "sell")
         => ~(MANAGE_WITH_SLTP /\ EntryPriceCarried(x.trade.mint))]_vars

CopySellIgnoredByOrchestrator ==
  last = "sltpManaged"

\* C10: whenever a mutating Position Store call has returned, the file
\* content equals the in-memory map
FileMatchesMemory ==
  stateFile = HoldingsJson(holdings)

PassStages == {"iter", "tokenInfo", "priceQuote", "exit"}

ExitsInFlight == { x \in InFlight : x.trade.type = "exit" }

\* C12: the monitor runs one pass at a time: the SL/TP sell of a pass is in
\* flight only while the pass awaits it, a pass begins only at the loop head
\* with a fresh snapshot, the loop head is reached only from the interval
\* sleep, and after the sleep the next pass is there to start
TicksDoNotOverlap ==
  /\ [](\A x \in ExitsInFlight : mpc = "exit" /\ ExitsInFlight = {x} /\ CopiesIn(x, runs) = 1)
  /\ [][(mpc \notin PassStages /\ mpc' \in PassStages)
          => (mpc = "loop" /\ mpc' = "iter" /\ mSnap' = holdings)]_vars
  /\ [][(mpc # "loop" /\ mpc' = "loop") => mpc = "sleep"]_vars
  /\ []((mpc = "sleep") => ENABLED SleepReturn)
  /\ []((mpc = "loop" /\ isPriceMonitoringRunning) => ENABLED TickStart)

NextPassAfterLongPass ==
  /\ mpc = "loop"
  /\ \E m \in Mints : exited[m]

\* C13: once the stop flag is set the monitor loop starts the evaluation of
\* no further position and begins no further interval sleep
StopObservedBeforeNextSleep ==
  /\ [][(mpc = "iter" /\ mpc' = "tokenInfo") => isPriceMonitoringRunning]_vars
  /\ [][(mpc # "sleep" /\ mpc' = "sleep") => isPriceMonitoringRunning]_vars

\* C14: shutdown goes flag, subscription teardown, pause, final save, exit;
\* no step of it removes a run in flight, and when the process has exited
\* the file holds every commit made before, those of runs that were in
\* flight when the signal came included
ShutdownPersistsCommits ==
  /\ [][(shutdownPc' = "pause" /\ shutdownPc # "pause")
          => (shutdownPc = "stopMonitoring" /\ ~isPriceMonitoringRunning)]_vars
  /\ [][(exitCode' = "0" /\ exitCode # "0") => shutdownPc = "pause"]_vars
  /\ [][shutdownPc' # shutdownPc => runs' = runs]_vars
  /\ [](exitCode = "0" => stateFile = HoldingsJson(holdings))

\* the thresholds of the evaluation in whole numbers: the quoted value per
\* held token against entry price * (100 +- pct) / 100
QuotedTimes100(c) ==
  c.outAmount * Pow10(c.tokenDecimals) * 100 * c.avgPurchasePriceInSol.d
EntryTimes(c, pct) == c.avgPurchasePriceInSol.n * pct * c.amountLamports
TakeProfitDue(c) ==
  c.amountLamports > 0
    /\ QuotedTimes100(c) >= EntryTimes(c, 100 + c.TAKE_PROFIT_PERCENTAGE)
StopLossDue(c) ==
  c.amountLamports > 0
    /\ QuotedTimes100(c) <= EntryTimes(c, 100 - c.STOP_LOSS_PERCENTAGE)

\* C15: the evaluation of a position triggers take-profit iff quoted value /
\* held units >= entry price * (1 + tp/100), otherwise stop-loss iff it is
\* <= entry price * (1 - sl/100), take-profit first, and never both
TriggerMatchesThresholds ==
  result # "unset" =>
    /\ result \in {"TP", "SL", "none"}
    /\ result = "TP" <=> TakeProfitDue(args)
    /\ result = "SL" <=> (~TakeProfitDue(args) /\ StopLossDue(args))

\* a price exactly on the take-profit threshold has triggered take-profit
TakeProfitOnThreshold ==
  /\ result = "TP"
  /\ QuotedTimes100(args) = EntryTimes(args, 100 + args.TAKE_PROFIT_PERCENTAGE)

\* the step on which the monitor calls executeSlTpSell for the position mCur
RiskExitInvoked == mpc = "priceQuote" /\ mpc' = "exit"

\* C16: a take-profit (or stop-loss) trigger invokes the risk exit once, for
\* the evaluated position and its whole amount; a position whose exit has
\* been confirmed and which has been deleted is never exited again, neither
\* in that tick nor in a later one
RiskExitOncePerPosition ==
  /\ [][RiskExitInvoked =>
          /\ ~exited[mCur]
          /\ Starts(PendingRun("quote", [type |-> "exit", mint |-> mCur],
                               mSnap[mCur].amountLamports))]_vars
  /\ [](\A x \in ExitsInFlight : ~exited[x.trade.mint])
  /\ [](\A m \in Mints : exited[m] => (executeTrades /\ ~hasHolding(m)))

\* real execution: the exit of a position was confirmed, the position is
\* deleted and the tick goes on without it
TickGoesOnAfterConfirmedExit ==
  /\ executeTrades
  /\ mpc = "iter"
  /\ \E m \in Mints : exited[m] /\ ~hasHolding(m) /\ m \notin DOMAIN mSnap

\* the step on which the valuation quote of position mCur is requested
ValuationQuoteRequested == mpc = "tokenInfo" /\ mpc' = "priceQuote"

\* C17: a valuation quote is requested only for a held position with entry
\* price, decimals and a positive amount, and for the whole amount held; a
\* position left without an exit (quote unavailable or no trigger) starts no
\* run and the pass continues with the next position
ValuationQuoteForWholePosition ==
  /\ [][ValuationQuoteRequested =>
          /\ hasHolding(mCur)
          /\ Evaluated(holdings[mCur])
          /\ mSnap[mCur].amountLamports = holdings[mCur].amountLamports]_vars
  /\ [][(mpc = "priceQuote" /\ mpc' = "iter") =>
          (runs' = runs /\ holdings' = holdings /\ mCur \notin DOMAIN mSnap')]_vars

\* C18: with MANAGE_WITH_SLTP off the price monitoring loop never runs: it
\* takes no snapshot, requests no quote, calls no executeSlTpSell, and every
\* change of the holdings is the commit of a copy-trade run
MonitorIsNoOpWhenDisabled ==
  /\ [](~MANAGE_WITH_SLTP =>
          /\ mpc = "off"
          /\ mSnap = EmptyMap
          /\ ExitsInFlight = {}
          /\ \A m \in Mints : ~exited[m])
  /\ [][(~MANAGE_WITH_SLTP /\ holdings' # holdings) =>
          \E x \in InFlight : Returns(x) /\ x.trade.type \in {"buy", "sell"}]_vars

\* risk management off: copy-trade runs have committed and a position that a
\* pass would evaluate is held, with the loop never started
EvaluablePositionWhileDisabled ==
  /\ ~MANAGE_WITH_SLTP
  /\ mpc = "off"
  /\ last = "success"
  /\ runs = EmptyBag
  /\ \E m \in Mints : hasHolding(m) /\ Evaluated(holdings[m])

\* handleLog has handled the notification drawn / has called collaborator c
Handled == started = 1
Called(c) == \E i \in DOMAIN result : result[i] = c

\* C19: a notification whose log carries an error leads to no
\* getParsedTransaction, no analyzeTrade and no run; one whose transaction
\* comes back null leads to no analyzeTrade and no run
FailedNotificationsDiscarded ==
  Handled =>
    /\ args.err =>
         /\ ~Called("getParsedTransaction")
         /\ ~Called("isDexInteraction")
         /\ ~Called("analyzeTrade")
         /\ ~Called("processTrade")
         /\ runs = EmptyBag
    /\ (~args.err /\ args.transaction = "null") =>
         /\ ~Called("isDexInteraction")
         /\ ~Called("analyzeTrade")
         /\ ~Called("processTrade")
         /\ runs = EmptyBag

\* the log of a transaction that would have classified as a trade carried an
\* error and was discarded with no call made
ErroredTradeDiscarded ==
  /\ Handled
  /\ result = <<>>
  /\ args.err
  /\ args.transaction = "dex"
  /\ args.analysis = "trade"

\* the notification got as far as a trade returned by analyzeTrade
Classified ==
  /\ Called("analyzeTrade")
  /\ args.analysis = "trade"

\* C20: a trade returned by analyzeTrade is handed to processTrade unless it
\* is a sell, MANAGE_WITH_SLTP is on and the holding of its mint carries an
\* entry price; then processTrade is not called.  Every buy is handed off.
TradesHandedOffUnlessManagedSell ==
  Classified =>
    /\ Called("processTrade") <=>
         ~(/\ args.trade.type = "sell"
           /\ MANAGE_WITH_SLTP
           /\ EntryPriceCarried(args.trade.mint))
    /\ args.trade.type = "buy" =>
         /\ Called("processTrade")
         /\ runs = SetToBag({PendingRun("quote", args.trade, 0)})
    /\ ~Called("processTrade") => (runs = EmptyBag /\ last = "filtered")

\* a sell of a holding with entry price was suppressed under MANAGE_WITH_SLTP
ManagedSellSuppressed ==
  /\ Classified
  /\ args.trade.type = "sell"
  /\ MANAGE_WITH_SLTP
  /\ EntryPriceCarried(args.trade.mint)
  /\ ~Called("processTrade")

\* C21: stopMonitoring asks for the removal of every recorded handle, a
\* rejected removal is logged and neither stops the others from settling nor
\* the call from completing, and the call ends with no handle recorded
StopMonitoringRemovesAll ==
  /\ [][result.pc # result'.pc /\ result.pc = "idle" /\ result'.pc = "awaiting"
          => result'.attempted = Range(result.subscriptionIds)]_vars
  /\ [](result.pc \in {"idle", "awaiting", "done"})
  /\ [](result.pc = "awaiting" =>
          \/ ENABLED StopMonitoringResolve
          \/ \E id \in result.attempted \ result.settled : ENABLED RemovalSettles(id))
  /\ [](result.pc = "done" =>
          /\ result.subscriptionIds = <<>>
          /\ result.settled = result.attempted
          /\ result.logged = args.rejects)

\* stopMonitoring completed although removals were rejected among several
StoppedDespiteFailedRemoval ==
  /\ result.pc = "done"
  /\ result.logged # {}
  /\ result.attempted \ result.logged # {}

\* the next step of the run x in flight
RunStep(x) == QuoteReturn(x) \/ ExecReturn(x) \/ SimulateReturn(x)

\* C22: a notification can be taken whatever runs earlier notifications
\* have in flight, and every run in flight can take its next step whatever
\* the others do: handling is concurrent and completes in any order
NotificationsNeverBlocked ==
  /\ (subscribed /\ started < MaxRuns) => ENABLED handleLog
  /\ \A x \in InFlight : ENABLED RunStep(x)

\* two copy-trade runs of different notifications are in flight at once,
\* the later one further on than the earlier could be
TwoNotificationsInFlight ==
  \E x, y \in InFlight :
    /\ x.trade.type \in {"buy", "sell"}
    /\ y.trade.type \in {"buy", "sell"}
    /\ x.pc = "quote"
    /\ y.pc # "quote"

\* C23: a buy run asks its quote for tradeAmountLamports whatever the size
\* of the detected trade; confirmed in real execution it records one fill of
\* the quote's outAmount at the cost of the quote's inAmount, creating the
\* holding or adding the amount to it; otherwise it records nothing
BuyFillIsTheQuote ==
  /\ [](result.pc # "start" => result.amount = args.tradeAmountLamports)
  /\ [][result'.pc = "committed" /\ result.pc # "committed" =>
          /\ executeTrades
          /\ result'.fill = <<args.tokenMint,
                              BigInt(result.quoteResponse.outAmount),
                              BigInt(result.quoteResponse.inAmount)>>
          /\ hasHolding(args.tokenMint)'
          /\ HeldAmount(args.tokenMint)' =
               HeldAmount(args.tokenMint) + BigInt(result.quoteResponse.outAmount)
          /\ \A m \in Mints \ {args.tokenMint} :
               hasHolding(m)' = hasHolding(m) /\ HeldAmount(m)' = HeldAmount(m)]_vars
  /\ [][holdings' # holdings => result'.pc = "committed"]_vars
  /\ [](result.pc \in {"simulated", "failed", "aborted"} => result.fill = NoFill)

\* a confirmed buy, sized unlike the source wallet's trade, added its quoted
\* outAmount to a holding that existed
BuyAddedToExistingHolding ==
  /\ result.pc = "committed"
  /\ args.tokenAmount # args.tradeAmountLamports
  /\ result.fill[2] > 0
  /\ HeldAmount(args.tokenMint) > result.fill[2]

\* C24: a copy-sell or SL/TP sell starts only on a held position and asks
\* its quote for the whole amount held; when it is confirmed in real
\* execution the amount it sold is the whole position, which is deleted
SellsWholePosition ==
  /\ [][\A x \in [trade : [type : {"sell", "exit"}, mint : Mints],
                   pc : {"quote"}, sellAmount : 0..(MaxRuns * MaxQuote + MaxQuote)] :
          Starts(x) =>
            /\ hasHolding(x.trade.mint)
            /\ x.sellAmount = HeldAmount(x.trade.mint)]_vars
  /\ [][\A x \in InFlight :
          (IsSellType(x.trade) /\ Returns(x) /\ last' = "success" /\ executeTrades) =>
            /\ x.sellAmount = HeldAmount(x.trade.mint)
            /\ ~hasHolding(x.trade.mint)']_vars

\* -- the classifier's result against the balance changes of the input --

Analyzed == result # NotAnalyzed
Complete == ~args.isNull /\ args.missing = {}
TradeReturned == Analyzed /\ result.trade.type \in {"buy", "sell"}

\* the watched account's balance of a mint in a list (0 without an account)
OwnAmounts(list, mint) ==
  { list[i].uiAmount : i \in { j \in DOMAIN list :
      /\ list[j].mint = mint
      /\ list[j].owner = monitoredWalletAddress
      /\ list[j].uiAmount # NullAmount } }
OwnAmount(list, mint) ==
  IF OwnAmounts(list, mint) = {} THEN 0 ELSE CHOOSE a \in OwnAmounts(list, mint) : TRUE
AssetDelta(mint) ==
  OwnAmount(args.postTokenBalances, mint) - OwnAmount(args.preTokenBalances, mint)
NativeDelta ==
  IF args.walletInAccountKeys THEN args.postBalance - args.preBalance ELSE 0
NativeExceedsDust == NativeDelta > solThreshold \/ NativeDelta < -solThreshold
WrappedExceedsDust ==
  AssetDelta(WSOL_MINT) > solThreshold \/ AssetDelta(WSOL_MINT) < -solThreshold
BaseDelta == IF NativeExceedsDust THEN NativeDelta ELSE AssetDelta(WSOL_MINT)

\* C25: a returned trade has tokenAmount > 0 and currencyAmount > 0; it is a
\* buy iff the asset delta is positive and the base delta negative, a sell
\* iff the asset delta is negative and the base delta positive
TradeDirectionMatchesDeltas ==
  TradeReturned =>
    LET t == result.trade IN
    /\ t.tokenAmount > 0
    /\ t.currencyAmount > 0
    /\ t.type = "buy" <=> (AssetDelta(t.tokenMint) > 0 /\ BaseDelta < 0)
    /\ t.type = "sell" <=> (AssetDelta(t.tokenMint) < 0 /\ BaseDelta > 0)
    /\ ~(AssetDelta(t.tokenMint) > 0 /\ BaseDelta > 0)
    /\ ~(AssetDelta(t.tokenMint) < 0 /\ BaseDelta < 0)

\* a sell was returned: the asset balance went down, the base balance up
SellReturned ==
  /\ TradeReturned
  /\ result.trade.type = "sell"
  /\ AssetDelta(result.trade.tokenMint) < 0
  /\ BaseDelta > 0

\* C26: the base delta is the native balance delta, labelled SOL, when its
\* magnitude exceeds the dust threshold; otherwise (also when the account is
\* not among the account keys) the WSOL token delta, labelled WSOL; when
\* neither exceeds the threshold nothing is returned
BaseDeltaNativeElseWrapped ==
  (Analyzed /\ Complete) =>
    /\ (TradeReturned /\ NativeExceedsDust) =>
         /\ result.trade.currencySymbol = "SOL"
         /\ result.trade.currencyAmount = Abs(NativeDelta)
    /\ (TradeReturned /\ ~NativeExceedsDust) =>
         /\ result.trade.currencySymbol = "WSOL"
         /\ result.trade.currencyAmount = Abs(AssetDelta(WSOL_MINT))
    /\ (~NativeExceedsDust /\ ~WrappedExceedsDust) => result.trade = NoTrade

\* a trade priced by the WSOL delta, the account not being among the keys
WrappedTradeWithoutAccountKey ==
  /\ TradeReturned
  /\ ~args.walletInAccountKeys
  /\ result.trade.currencySymbol = "WSOL"

\* asset m changed beyond dust and pairs with the base delta
Pairs(m) ==
  \/ AssetDelta(m) > tokenThreshold /\ BaseDelta < -solThreshold
  \/ AssetDelta(m) < -tokenThreshold /\ BaseDelta > solThreshold
\* position of the watched account's first entry of m in a list, 0 if none
FirstIndex(list, m) ==
  LET I == { i \in DOMAIN list : /\ list[i].mint = m
                                 /\ list[i].owner = monitoredWalletAddress
                                 /\ list[i].uiAmount # NullAmount }
  IN IF I = {} THEN 0 ELSE CHOOSE i \in I : \A j \in I : i <= j
\* iteration order of the assets: those with a balance before in list order,
\* then those with a balance only after
Precedes(a, b) ==
  LET pa == FirstIndex(args.preTokenBalances, a)
      pb == FirstIndex(args.preTokenBalances, b)
      qa == FirstIndex(args.postTokenBalances, a)
      qb == FirstIndex(args.postTokenBalances, b)
  IN \/ pa > 0 /\ pb > 0 /\ pa < pb
     \/ pa > 0 /\ pb = 0
     \/ pa = 0 /\ pb = 0 /\ qa > 0 /\ qb > 0 /\ qa < qb

\* C27: an asset whose delta has the sign of the base delta is skipped; the
\* first asset in iteration order that pairs as a buy or a sell is the
\* result; when none pairs the result is none
FirstPairingAssetReturned ==
  (Analyzed /\ Complete) =>
    /\ TradeReturned =>
         /\ result.trade.tokenMint \in TokenMints
         /\ Pairs(result.trade.tokenMint)
         /\ \A m \in TokenMints : Pairs(m) => ~Precedes(m, result.trade.tokenMint)
    /\ ~TradeReturned => (result.trade = NoTrade /\ \A m \in TokenMints : ~Pairs(m))
    /\ \A i \in DOMAIN result.getTokenInfo :
         LET m == result.getTokenInfo[i] IN
         /\ m \in TokenMints
         /\ Abs(AssetDelta(m)) > tokenThreshold
         /\ i < Len(result.getTokenInfo) => ~Pairs(m)

\* the first asset changed with the sign of the base delta and was skipped,
\* the second one was returned
SecondAssetReturnedAfterSkip ==
  /\ TradeReturned
  /\ Len(result.getTokenInfo) = 2
  /\ result.trade.tokenMint = result.getTokenInfo[2]
  /\ ~Pairs(result.getTokenInfo[1])

\* C28: for a null transaction or one lacking pre/post token balances,
\* pre/post balances, account keys or a signature, analyzeTrade returns none
\* and has made no getTokenInfo call
IncompleteTransactionNotClassified ==
  (Analyzed /\ ~Complete) => (result.trade = NoTrade /\ result.getTokenInfo = <<>>)

\* a transaction that classifies as a buy when complete was analysed with
\* its signature alone missing
BuyWithoutSignatureAnalyzed ==
  /\ Analyzed
  /\ args = [SampleBuyTx EXCEPT !.missing = {"signature"}]
  /\ analyzeTrade(SampleBuyTx).trade.type = "buy"

\* the program ids of every top-level and inner instruction of the input
InstructionIds ==
  { args.instructions[i] : i \in DOMAIN args.instructions }
    \cup UNION { { args.innerInstructions[k][i] : i \in DOMAIN args.innerInstructions[k] } :
                 k \in DOMAIN args.innerInstructions }

\* C29: isDexInteraction is true iff some top-level or inner instruction has
\* a program id of DEX_PROGRAM_IDS, and false for a null transaction or one
\* without meta; when it is false handleLog calls neither analyzeTrade nor
\* processTrade
DexInteractionIffKnownProgram ==
  result # NotChecked =>
    /\ result.isDex <=>
         /\ ~args.isNull
         /\ args.hasMeta
         /\ InstructionIds \cap DEX_PROGRAM_IDS # {}
    /\ ~result.isDex =>
         \A i \in DOMAIN result.handleLog :
           result.handleLog[i] \notin {"analyzeTrade", "processTrade"}
    /\ result.isDex =>
         \E i \in DOMAIN result.handleLog : result.handleLog[i] = "processTrade"

\* a swap program appears only in an inner instruction and was found
DexFoundInInnerInstruction ==
  /\ result # NotChecked
  /\ result.isDex
  /\ \A i \in DOMAIN args.instructions : args.instructions[i] \notin DEX_PROGRAM_IDS

SavedAndLoaded == result.pc \in {"loaded", "loadedStale"}

\* C30: loadHoldings after saveHoldings yields a map equal to the saved one:
\* the same assets, each with the same amount and the same cost integer
LoadAfterSaveReproducesMap ==
  SavedAndLoaded => result.loaded = args

\* the conversion on its own: when the file was written, every amount and
\* cost integer comes back as it was
WrittenFileReproducesMap ==
  result.pc = "loaded" => result.loaded = args

\* a position with the largest amount and cost was written and loaded
LargestAmountLoaded ==
  /\ result.pc = "loaded"
  /\ \E m \in DOMAIN args : /\ args[m].amountLamports = LargestAmount
                            /\ args[m].totalBaseSpent = Defined(LargestAmount)

\* the characters of s are decimal digits, at least one of them
DecimalDigits(s) == s # <<>> /\ \A i \in DOMAIN s : s[i] \in {DigitChars[k] : k \in 1..10}

\* the amount string of a file entry can be converted to an integer
Convertible(s) ==
  \/ s = <<>>
  \/ DecimalDigits(s)
  \/ s[1] = "-" /\ DecimalDigits(SubSeq(s, 2, Len(s)))

\* the integer a convertible string denotes: each digit times its power of ten
RECURSIVE PlaceValues(_, _)
PlaceValues(s, i) ==
  IF i > Len(s) THEN 0
  ELSE DigitOf(s[i]) * TenTo(Len(s) - i) + PlaceValues(s, i + 1)

DecimalValue(s) ==
  IF s = <<>> THEN 0
  ELSE IF s[1] = "-" THEN 0 - PlaceValues(s, 2)
  ELSE PlaceValues(s, 1)

\* the file loadHoldings has read is a JSON object of entries
LoadedFromJson == SavedAndLoaded /\ result.file.kind = "json"

\* C31: loadHoldings loads every entry of the file whose amount (and cost)
\* converts to an integer and leaves out exactly the entries whose
\* conversion fails; a bad entry does not drop the valid ones
MalformedEntriesSkipped ==
  LoadedFromJson =>
    \A m \in DOMAIN result.file.data :
      LET j == result.file.data[m]
          ok == /\ Convertible(j.amountLamports)
                /\ j.totalBaseSpent # Undefined => Convertible(j.totalBaseSpent[1])
      IN  /\ ok <=> m \in DOMAIN result.loaded
          /\ ok => result.loaded[m].amountLamports = DecimalValue(j.amountLamports)

\* a file with one malformed and one well-formed entry was loaded
ValidEntryLoadedBesideMalformed ==
  /\ LoadedFromJson
  /\ \E m \in DOMAIN result.file.data : ~Convertible(result.file.data[m].amountLamports)
  /\ \E m \in DOMAIN result.file.data : m \in DOMAIN result.loaded

\* two fractions denote the same number
RatEq(a, b) == a.n * b.d = b.n * a.d

\* the whole units of a fill and its price per whole unit
FillSize(f, dec) == Rat(f.units, Pow10(dec))
FillPrice(f, dec) == RatDiv(Rat(f.cost, 1), FillSize(f, dec))

\* a fraction in lowest terms
RECURSIVE Gcd(_, _)
Gcd(a, b) == IF b = 0 THEN a ELSE Gcd(b, a % b)

Lowest(a) == LET g == Gcd(a.n, a.d) IN IF g = 0 THEN a ELSE Rat(a.n \div g, a.d \div g)

\* the sum over the fills of size times price, and the sum of the sizes
RECURSIVE SizeTimesPrice(_, _, _)
SizeTimesPrice(fills, i, dec) ==
  IF i > Len(fills) THEN Rat(0, 1)
  ELSE Lowest(RatAdd(Lowest(RatMul(FillSize(fills[i], dec), FillPrice(fills[i], dec))),
                     SizeTimesPrice(fills, i + 1, dec)))

RECURSIVE TotalSize(_, _, _)
TotalSize(fills, i, dec) ==
  IF i > Len(fills) THEN Rat(0, 1)
  ELSE Lowest(RatAdd(FillSize(fills[i], dec), TotalSize(fills, i + 1, dec)))

\* C32: in risk-managed mode the entry price of a position is the
\* cost-weighted average of its committed buy fills, (A*X + B*Y)/(A+B) for
\* fills A at X and B at Y, after every buy fill and unchanged by a read
WeightedAverageEntryPrice ==
  (result.exists /\ MANAGE_WITH_SLTP) =>
    RatEq(result.avgPurchasePriceInSol,
          RatDiv(SizeTimesPrice(args, 1, result.tokenDecimals),
                 TotalSize(args, 1, result.tokenDecimals)))

\* two fills at different prices were committed and the position was read
TwoFillsAtDifferentPrices ==
  /\ result.exists
  /\ result.op = "read"
  /\ Len(args) = 2
  /\ ~RatEq(FillPrice(args[1], result.tokenDecimals), FillPrice(args[2], result.tokenDecimals))

\* C33: a copy-sell or risk exit that requests its sell quote, or that
\* commits its deletion after its awaits, works on the position as the store
\* holds it at that moment: the position exists and has the amount being sold
NoStaleSnapshotActedOn ==
  [][\A x \in InFlight \cup InFlight' :
       (IsSellType(x.trade) /\ (Starts(x) \/ (Returns(x) /\ last' = "success" /\ executeTrades)))
         => /\ hasHolding(x.trade.mint)
            /\ x.sellAmount = HeldAmount(x.trade.mint)]_vars

\* the position of a stage in the order the claim gives
StageRank(stage) ==
  CASE stage = "quote" -> 1
    [] stage = "build" -> 2
    [] stage = "sign" -> 3
    [] stage = "submit" -> 4
    [] stage = "simulate" -> 4
    [] stage = "blockhash" -> 5
    [] stage = "confirm" -> 6

\* C34: a run requests its stages in the order quote, build, sign, submit,
\* confirm, each at most once, each only after the one before it succeeded,
\* and nothing after a stage that failed
StagesInOrderOnce ==
  /\ \A i, j \in DOMAIN result :
       i < j => StageRank(result[i].stage) < StageRank(result[j].stage)
  /\ \A i \in DOMAIN result :
       /\ i < Len(result) => result[i].outcome = "ok"
       /\ (i > 1 /\ result[i].stage \notin {"simulate"}) =>
            StageRank(result[i - 1].stage) = StageRank(result[i].stage) - 1
       /\ result[i].stage = "simulate" => result[i - 1].stage = "sign"
  /\ (result # NotStarted) => result[1].stage = "quote"

\* a run in real execution was confirmed after all its stages
RunConfirmedAfterAllStages ==
  /\ Len(result) = 6
  /\ result[6] = StageEntry("confirm", "ok")

StartedMonitoring == result.pc # "constructed"

\* the subscriptions opened for a wallet
OpenedFor(w) == { s \in result.opened : s.wallet = w }

\* C35: after startMonitoring every wallet whose subscription call succeeded
\* has exactly one subscription, whether or not the call for another wallet
\* failed; the handles recorded are exactly the ids of the subscriptions
\* opened, each once, and stopMonitoring attempts the removal of all of them
OneSubscriptionPerWallet ==
  StartedMonitoring =>
    /\ \A w \in 1..args.wallets :
         Cardinality(OpenedFor(w)) = IF w \in args.throws THEN 0 ELSE 1
    /\ \A s, t \in result.opened : s.id = t.id => s = t
    /\ result.pc = "idle" =>
         /\ Range(result.subscriptionIds) = { s.id : s \in result.opened }
         /\ Len(result.subscriptionIds) = Cardinality(result.opened)
    /\ result.pc \in {"awaiting", "done"} =>
         result.attempted = { s.id : s \in result.opened }

\* the call for the first wallet failed, the later wallets were subscribed
\* and their handles removed by stopMonitoring
LaterWalletsSubscribedAfterFailure ==
  /\ result.pc = "done"
  /\ args.wallets = MaxWallets
  /\ args.throws = {1}
  /\ Cardinality(result.settled) = MaxWallets - 1

\* C36: one classification calls getTokenInfo for the asset of the returned
\* trade only: once for it, for no asset that was skipped, and not at all
\* when nothing is returned
MetadataOnlyForWinningAsset ==
  Analyzed =>
    result.getTokenInfo = IF TradeReturned THEN <<result.trade.tokenMint>> ELSE <<>>

\* C37: a map returned by getAllHoldings is a copy: a later mutation of the
\* Position Store leaves the records of the map returned to the monitor as
\* they were
SnapshotUnalteredByStore ==
  [][holdings' # holdings => mSnap' = mSnap]_vars

ConfirmedFills == { i \in DOMAIN result : result[i].pc = "confirmed" }

\* the sum of the quoted outAmounts of the confirmed runs among 1..n
RECURSIVE QuotedSum(_)
QuotedSum(n) ==
  IF n = 0 THEN 0
  ELSE QuotedSum(n - 1) + IF n \in ConfirmedFills THEN result[n].outAmount ELSE 0

\* C38: whatever the interleaving of the buy runs for one asset, the amount
\* of its position is the amount held before plus the sum of the quoted
\* outAmounts of the confirmed runs, and the position exists once any run
\* was confirmed
ConcurrentFillsAllCounted ==
  /\ HeldAmount(BoughtMint) = args + QuotedSum(MaxRuns)
  /\ ConfirmedFills # {} => hasHolding(BoughtMint)
  /\ DOMAIN holdings \subseteq {BoughtMint}

\* every run was in flight at once and then confirmed with a non-zero fill
AllInterleavedFillsConfirmed ==
  /\ ConfirmedFills = 1..MaxRuns
  /\ \A i \in 1..MaxRuns : result[i].outAmount > 0
  /\ HeldAmount(BoughtMint) >= MaxRuns

\* a step in which an exception reaches the catch of the monitor loop
EvaluationThrows == PassAborted \/ \E x \in InFlight : ExitCallThrows(x)

====
